---------------------------- MODULE Spec2Model ----------------------------
(***************************************************************************)
(* Model of the OpenCL Mandelbrot engine (class MandelbrotViewer and the   *)
(* "mandelbrot" kernel).                                                   *)
(*                                                                         *)
(* Numbers: the kernel and the host compute in `double`.  The model keeps  *)
(* every such value as a fixed-point number, an integer count of 1/ONE     *)
(* units, and rounds every product and quotient to the nearest unit, the   *)
(* way the hardware rounds to the nearest representable double.  The       *)
(* library functions log, sin and cos are computed by fixed-point          *)
(* algorithms that keep the properties of the real ones that matter here   *)
(* (sign, range, monotonicity), not as identities.                         *)
(***************************************************************************)
EXTENDS Integers, Sequences, FiniteSets, TLC

(***************************************************************************)
(* Bounds of the model.                                                    *)
(***************************************************************************)
MaxW == 2
MaxH == 2
MaxIter == 2
\* the evaluator alone is tried on the points k/4, |k| <= MaxPoint, and on
\* iteration caps up to MaxEvalIter
MaxPoint == 8
MaxEvalIter == 4
\* a loop that has not stopped after LoopFuel passes is taken not to stop
LoopFuel == 6

(***************************************************************************)
(* Fixed-point representation of `double`.                                 *)
(***************************************************************************)
ONE == 1024

Fx(n, d) == (2 * n * ONE + d) \div (2 * d)

FxMul(a, b) ==
    LET ah == a \div ONE
        al == a % ONE
    IN  ah * b + ((al * b + (ONE \div 2)) \div ONE)

FxDiv(a, b) ==
    IF b > 0 THEN (2 * a * ONE + b) \div (2 * b)
             ELSE (2 * (-a) * ONE + (-b)) \div (2 * (-b))

\* conversion of a double to an integer type truncates toward zero
Trunc(a) == IF a >= 0 THEN a \div ONE ELSE -((-a) \div ONE)

min(a, b) == IF a < b THEN a ELSE b
max(a, b) == IF a > b THEN a ELSE b

\* fmod(a, b), b > 0: the remainder has the sign of a
fmod(a, b) == IF a >= 0 THEN a % b ELSE -((-a) % b)

M_PI == 3217

\* natural logarithm, defined for a > 0: 2 * atanh((a - 1) / (a + 1)), the
\* series cut after the fifth power
log(a) ==
    LET z == FxDiv(a - ONE, a + ONE)
        z2 == FxMul(z, z)
        z3 == FxMul(z2, z)
        z5 == FxMul(z3, z2)
    IN  2 * (z + FxDiv(z3, 3 * ONE) + FxDiv(z5, 5 * ONE))

\* sine of a half wave t in [0, pi] (Bhaskara's rational form), within [0, 1]
SinHalf(t) ==
    LET p == FxMul(t, M_PI - t)
        q == (16 * p * ONE) \div (5 * FxMul(M_PI, M_PI) - 4 * p)
    IN  max(0, min(q, ONE))

sin(a) ==
    LET r == a % (2 * M_PI)
    IN  IF r <= M_PI THEN SinHalf(r) ELSE -SinHalf(r - M_PI)

cos(a) == sin(a + (M_PI \div 2))

(***************************************************************************)
(* The palette functions of the kernel.  A colour is <<r, g, b>>.          *)
(***************************************************************************)
rainbow_palette(norm_iter, shift) ==
    LET phase == fmod(FxMul(norm_iter, 3 * ONE) + shift, ONE)
        angle == FxMul(FxMul(phase, 2 * ONE), M_PI)
        third == FxDiv(FxMul(2 * ONE, M_PI), 3 * ONE)
        twoth == FxDiv(FxMul(4 * ONE, M_PI), 3 * ONE)
        r == FxMul(sin(angle), Fx(1, 2)) + Fx(1, 2)
        g == FxMul(sin(angle + third), Fx(1, 2)) + Fx(1, 2)
        b == FxMul(sin(angle + twoth), Fx(1, 2)) + Fx(1, 2)
    IN  << min(FxMul(r, Fx(3, 2)), ONE),
           min(FxMul(g, Fx(3, 2)), ONE),
           min(FxMul(b, Fx(3, 2)), ONE) >>

fire_palette_NoFloor(norm_iter, shift) ==
    LET phase == fmod(norm_iter + shift, ONE)
        r == min(FxMul(phase, 2 * ONE), ONE)
        g == min(FxMul(phase - Fx(3, 10), 2 * ONE), ONE)
    IN  << r, g, 0 >>
fire_palette(norm_iter, shift) ==
    LET phase == fmod(norm_iter + shift, ONE)
        r == min(FxMul(phase, 2 * ONE), ONE)
        g == max(0, min(FxMul(phase - Fx(3, 10), 2 * ONE), ONE))
    IN  << r, g, 0 >>

electric_blue(norm_iter, shift) ==
    LET phase == fmod(norm_iter + shift, ONE)
    IN  << 0, min(FxMul(phase, 2 * ONE), ONE), min(FxMul(phase, Fx(5, 2)), ONE) >>

twilight_palette(norm_iter, shift) ==
    LET phase == fmod(norm_iter + shift, ONE)
    IN  << min(FxMul(phase, Fx(3, 2)), ONE), 0, min(FxMul(phase, 2 * ONE), ONE) >>

neon_palette(norm_iter, shift) ==
    LET phase == fmod(norm_iter + shift, ONE)
        r == FxMul(sin(FxMul(phase, M_PI)), Fx(1, 2)) + Fx(1, 2)
        g == FxMul(cos(FxMul(phase, M_PI)), Fx(1, 2)) + Fx(1, 2)
        b == FxMul(sin(FxMul(phase, M_PI) + FxDiv(M_PI, 3 * ONE)), Fx(1, 2)) + Fx(1, 2)
    IN  << r, g, b >>

vintage_sepia(norm_iter, shift) ==
    LET phase == fmod(norm_iter + shift, ONE)
    IN  << min(FxMul(phase, Fx(12, 10)), ONE),
           min(FxMul(phase, Fx(11, 10)), ONE),
           min(FxMul(phase, Fx(9, 10)), ONE) >>

apply_log_smooth(val) == FxDiv(log(FxMul(val, Fx(1, 2)) + Fx(1, 2)), log(Fx(3, 2)))

(***************************************************************************)
(* Conversion of a double to uchar.  A value whose truncation lies in      *)
(* 0..255 converts to it; outside that range the result depends on the     *)
(* device: it wraps modulo 256 or saturates.                               *)
(***************************************************************************)
UcharConvs == {"wrap", "sat"}

uchar(v, conv) ==
    LET t == Trunc(v)
    IN  IF t >= 0 /\ t <= 255 THEN t
        ELSE IF conv = "wrap" THEN t % 256
        ELSE IF t < 0 THEN 0 ELSE 255

(***************************************************************************)
(* The escape loop of the kernel.  EscapeLoop is the value of iter when    *)
(* the while loop stops, starting from <<x1, y1, x2, y2, iter>>, and       *)
(* NoHalt when it does not stop.                                           *)
(***************************************************************************)
NoHalt == -1

LoopCond_Le(x2, y2, iter, max_iter) == x2 + y2 <= 4 * ONE /\ iter <= max_iter
LoopCond_NoCap(x2, y2, iter, max_iter) == x2 + y2 <= 4 * ONE
LoopCond_CapMinusOne(x2, y2, iter, max_iter) == x2 + y2 <= 4 * ONE /\ iter < max_iter - 1
LoopCond_Radius4(x2, y2, iter, max_iter) == x2 + y2 <= 16 * ONE /\ iter < max_iter
LoopCond(x2, y2, iter, max_iter) == x2 + y2 <= 4 * ONE /\ iter < max_iter

RECURSIVE EscapeLoop(_, _, _, _, _, _, _, _, _)
EscapeLoop(x0, y0, x1, y1, x2, y2, iter, max_iter, fuel) ==
    IF LoopCond(x2, y2, iter, max_iter)
    THEN IF fuel = 0 THEN NoHalt
         ELSE LET ny1 == FxMul(FxMul(2 * ONE, x1), y1) + y0
                  nx1 == x2 - y2 + x0
              IN  EscapeLoop(x0, y0, nx1, ny1, FxMul(nx1, nx1), FxMul(ny1, ny1),
                             iter + 1, max_iter, fuel - 1)
    ELSE iter

EscapeTime_FromPoint(x0, y0, max_iter) ==
    EscapeLoop(x0, y0, x0, y0, FxMul(x0, x0), FxMul(y0, y0), 0, max_iter, LoopFuel)
EscapeTime(x0, y0, max_iter) == EscapeLoop(x0, y0, 0, 0, 0, 0, 0, max_iter, LoopFuel)

\* the test that selects the colouring branch
Escaped_Le(iter, max_iter) == iter <= max_iter
Escaped(iter, max_iter) == iter < max_iter

PaletteColor_DefaultFire(color_mode, norm_iter, color_shift) ==
    CASE color_mode = 0 -> rainbow_palette(norm_iter, color_shift)
      [] color_mode = 2 -> electric_blue(norm_iter, color_shift)
      [] color_mode = 3 -> twilight_palette(norm_iter, color_shift)
      [] color_mode = 4 -> neon_palette(norm_iter, color_shift)
      [] color_mode = 5 -> vintage_sepia(norm_iter, color_shift)
      [] OTHER -> fire_palette(norm_iter, color_shift)

\* the switch on color_mode
PaletteColor(color_mode, norm_iter, color_shift) ==
    CASE color_mode = 0 -> rainbow_palette(norm_iter, color_shift)
      [] color_mode = 1 -> fire_palette(norm_iter, color_shift)
      [] color_mode = 2 -> electric_blue(norm_iter, color_shift)
      [] color_mode = 3 -> twilight_palette(norm_iter, color_shift)
      [] color_mode = 4 -> neon_palette(norm_iter, color_shift)
      [] color_mode = 5 -> vintage_sepia(norm_iter, color_shift)
      [] OTHER -> << 0, 0, 0 >>

\* the three bytes the kernel stores for a pixel whose loop returned iter
PixelRGB(iter, max_iter, color_mode, color_shift, conv) ==
    IF Escaped(iter, max_iter)
    THEN LET norm_iter == apply_log_smooth(FxDiv(iter * ONE, max_iter * ONE))
             color == PaletteColor(color_mode, norm_iter, color_shift)
         IN  << uchar(FxMul(color[1], 255 * ONE), conv),
                uchar(FxMul(color[2], 255 * ONE), conv),
                uchar(FxMul(color[3], 255 * ONE), conv) >>
    ELSE << 0, 0, 0 >>

\* pixel and buffer indices of work item gid
PixelX_Div(gid, w) == gid \div w
PixelX(gid, w) == gid % w
PixelY(gid, w) == gid \div w
RgbIndex_Stride2(gid) == gid * 2
RgbIndex(gid) == gid * 3

(***************************************************************************)
(* Coordinate mapping of computeFrame.                                     *)
(***************************************************************************)
CoordX_PixelCentre(x, w, h, cx, zm) ==
    LET aspectRatio == FxDiv(w * ONE, h * ONE)
        scale == FxDiv(4 * ONE, zm)
    IN  cx + FxMul(FxDiv(FxMul(x * ONE - FxDiv((w - 1) * ONE, 2 * ONE), scale), w * ONE),
                   aspectRatio)
CoordX(x, w, h, cx, zm) ==
    LET aspectRatio == FxDiv(w * ONE, h * ONE)
        scale == FxDiv(4 * ONE, zm)
    IN  cx + FxMul(FxDiv(FxMul(x * ONE - FxDiv(w * ONE, 2 * ONE), scale), w * ONE),
                   aspectRatio)

CoordY(y, h, cy, zm) ==
    LET scale == FxDiv(4 * ONE, zm)
    IN  cy + FxDiv(FxMul(y * ONE - FxDiv(h * ONE, 2 * ONE), scale), h * ONE)

(***************************************************************************)
(* Sizes of the host vectors and of the device buffers, in cells.          *)
(***************************************************************************)
ImageDataSize_NoChannels(w, h) == w * h
ImageDataSize(w, h) == w * h * 3
IterationsSize(w, h) == w * h
RgbBufferSize(w, h) == w * h * 3
IterationsBufferSize(w, h) == w * h
GlobalSize_Row(w, h) == w
GlobalSize(w, h) == w * h
ReadSize_Third(w, h) == w * h
ReadSize(w, h) == w * h * 3

(***************************************************************************)
(* Inputs of the environment.                                              *)
(***************************************************************************)
Widths == 1..MaxW
Heights == 1..MaxH
IterValues == 1..MaxIter
ModeValues == {1, 4, 6}
ShiftValues == {0, Fx(18, 10)}
CenterXValues == {-Fx(1, 2)}
CenterYValues == {0}
ZoomValues == {ONE, 2 * ONE}
\* the points k/4 and two far ones
PointValues == {k * (ONE \div 4) : k \in (-MaxPoint)..MaxPoint} \cup {-1000 * ONE, 1000 * ONE}
EvalIterValues == 1..MaxEvalIter

\* contents of device memory that was never written, and what a read of
\* it may produce
Uninit == -(2^30)
GarbageCoords == {0, 3 * ONE}
GarbageBytes == {0, 255}

\* a buffer of n cells holding v: cells are indexed from 0 as in the source
Buf(n, v) == [i \in 0..(n - 1) |-> v]

Size(buf) == Cardinality(DOMAIN buf)

Store(buf, i, v) == IF i \in DOMAIN buf THEN [buf EXCEPT ![i] = v] ELSE buf

\* what a load of cell i can yield
Loads(buf, i, garbage) ==
    IF i \in DOMAIN buf /\ buf[i] # Uninit THEN {buf[i]} ELSE garbage

\* the results of copying the first n cells of src into dst
\* (clEnqueueWriteBuffer / clEnqueueReadBuffer)
Copies(dst, src, n, garbage) ==
    LET defined == \A i \in DOMAIN dst : i < n => (i \in DOMAIN src /\ src[i] # Uninit)
    IN  { [i \in DOMAIN dst |-> IF i >= n THEN dst[i]
                                ELSE IF i \in DOMAIN src /\ src[i] # Uninit THEN src[i]
                                ELSE g] : g \in IF defined THEN {0} ELSE garbage }

StoreRGB_SkipBlack(buf, idx, rgb) ==
    IF rgb = << 0, 0, 0 >> THEN buf
    ELSE Store(Store(Store(buf, idx, rgb[1]), idx + 1, rgb[2]), idx + 2, rgb[3])

\* the stores of the three bytes of a pixel
StoreRGB(buf, idx, rgb) ==
    Store(Store(Store(buf, idx, rgb[1]), idx + 1, rgb[2]), idx + 2, rgb[3])

ConstructErrors ==
    {"Failed to get OpenCL platform", "Failed to get OpenCL device",
     "Double precision not supported", "Failed to create OpenCL context",
     "Failed to create command queue", "Failed to create iterations buffer",
     "Failed to create RGB buffer", "Failed to create X array buffer",
     "Failed to create Y array buffer", "Failed to create program",
     "Failed to build program", "Failed to create kernel"}

\* the devices the program can be started on
DeviceKinds == {"no platform", "no GPU", "no double", "GPU with double"}

\* the calls of initializeOpenCL, createBuffers and compileKernel in their
\* order, each with the message thrown when it fails and the members it
\* acquires when it succeeds
ConstructOrder ==
    << [message |-> "Failed to get OpenCL platform", acquires |-> {}],
       [message |-> "Failed to get OpenCL device", acquires |-> {}],
       [message |-> "Double precision not supported", acquires |-> {}],
       [message |-> "Failed to create OpenCL context", acquires |-> {"context"}],
       [message |-> "Failed to create command queue", acquires |-> {"queue"}],
       [message |-> "Failed to create iterations buffer", acquires |-> {"iterationsBuffer"}],
       [message |-> "Failed to create RGB buffer", acquires |-> {"rgbBuffer"}],
       [message |-> "Failed to create X array buffer", acquires |-> {"xArrayBuffer"}],
       [message |-> "Failed to create Y array buffer", acquires |-> {"yArrayBuffer"}],
       [message |-> "Failed to create program", acquires |-> {"program"}],
       [message |-> "Failed to build program", acquires |-> {}],
       [message |-> "Failed to create kernel", acquires |-> {"kernel"}] >>

\* the first call that fails: the one the device makes fail (no platform, no
\* GPU, no double precision) or the call that fails with the message outcome
\* for another reason, whichever comes first; Len(ConstructOrder) + 1 if none
FailingCall_NoPrecisionCheck(dev, outcome) ==
    LET none == Len(ConstructOrder) + 1
        byDevice == CASE dev = "no platform" -> 1
                      [] dev = "no GPU" -> 2
                      [] OTHER -> none
        byCall == IF outcome = "ok" THEN none
                  ELSE CHOOSE n \in 1..Len(ConstructOrder) : ConstructOrder[n].message = outcome
    IN  min(byDevice, byCall)

FailingCall(dev, outcome) ==
    LET none == Len(ConstructOrder) + 1
        byDevice == CASE dev = "no platform" -> 1
                      [] dev = "no GPU" -> 2
                      [] dev = "no double" -> 3
                      [] OTHER -> none
        byCall == IF outcome = "ok" THEN none
                  ELSE CHOOSE n \in 1..Len(ConstructOrder) : ConstructOrder[n].message = outcome
    IN  min(byDevice, byCall)

\* the members acquired by the calls before call n
AcquiredBefore(n) == UNION {ConstructOrder[k].acquires : k \in 1..(n - 1)}

VARIABLES
    pc,               \* "none", "failed", "idle", a step of computeFrame, or "thrown"
    result,           \* outcome of the last call that can fail: "ok" or the message thrown
    width, height, maxIterations, colorMode, colorShift,
    imageData, iterations, xArray, yArray,                    \* host vectors
    iterationsBuffer, rgbBuffer, xArrayBuffer, yArrayBuffer,  \* device buffers
    kernelArgs,       \* the scalar arguments 4..8 held by the kernel object
    centerX, centerY, zoom,   \* arguments of the computeFrame call in progress
    pending,          \* work items of the enqueued kernel that have not run yet
    ucharConv,        \* how the device converts an out-of-range double to uchar
    rgbWrites,        \* per cell of rgbBuffer: stores made by the current kernel run
    applied,          \* work items of the current run that took the colouring branch
    oob,              \* some access fell outside its buffer
    lastFrame,        \* parameters of the frame imageData holds, if it holds one, and
                      \* whether the frame before it had the same
    probe,            \* a function applied on its own: its inputs and its result
    device,           \* the device the program runs on
    acquired,         \* the OpenCL members that hold a resource not yet released
    mainPc,           \* where main is: "none", "poll", "frame", "done" or "exit"
    ui,               \* the globals of main.cpp
    shown             \* the last call of SDL_UpdateTexture

vars == << pc, result, width, height, maxIterations, colorMode, colorShift,
           imageData, iterations, xArray, yArray,
           iterationsBuffer, rgbBuffer, xArrayBuffer, yArrayBuffer,
           kernelArgs, centerX, centerY, zoom, pending, ucharConv,
           rgbWrites, applied, oob, lastFrame, probe, device, acquired,
           mainPc, ui, shown >>

fields == << width, height, maxIterations, colorMode, colorShift >>
hostVectors == << imageData, iterations, xArray, yArray >>
deviceBuffers == << iterationsBuffer, rgbBuffer, xArrayBuffer, yArrayBuffer >>
callArgs == << centerX, centerY, zoom >>
kernelRun == << pending, rgbWrites, applied >>
program == << mainPc, ui, shown >>
env == << ucharConv, probe, device, program >>
engine == << pc, result, fields, hostVectors, deviceBuffers, kernelArgs, callArgs,
             kernelRun, ucharConv, oob, lastFrame, device, acquired, program >>

NoArgs == [width |-> Uninit, height |-> Uninit, max_iter |-> Uninit,
           color_mode |-> Uninit, color_shift |-> Uninit]

NoFrame == [valid |-> FALSE]

NoProbe == [kind |-> "none"]

NoUi == [running |-> FALSE]

NoShown == [valid |-> FALSE]

Init ==
    /\ pc = "none"
    /\ result = "ok"
    /\ width = 0 /\ height = 0 /\ maxIterations = 0
    /\ colorMode = 0 /\ colorShift = 0
    /\ imageData = Buf(0, 0) /\ iterations = Buf(0, 0)
    /\ xArray = Buf(0, 0) /\ yArray = Buf(0, 0)
    /\ iterationsBuffer = Buf(0, 0) /\ rgbBuffer = Buf(0, 0)
    /\ xArrayBuffer = Buf(0, 0) /\ yArrayBuffer = Buf(0, 0)
    /\ kernelArgs = NoArgs
    /\ centerX = 0 /\ centerY = 0 /\ zoom = 0
    /\ pending = {}
    /\ ucharConv \in UcharConvs
    /\ rgbWrites = Buf(0, 0)
    /\ applied = {}
    /\ oob = FALSE
    /\ lastFrame = NoFrame
    /\ probe = NoProbe
    /\ device \in DeviceKinds
    /\ acquired = {}
    /\ mainPc = "none" /\ ui = NoUi /\ shown = NoShown

(***************************************************************************)
(* MandelbrotViewer::MandelbrotViewer.  The fields are set and the host    *)
(* vectors sized, then initializeOpenCL, createBuffers and compileKernel   *)
(* run; any of their failures is rethrown and no engine exists.            *)
(***************************************************************************)
Construct(w, h, maxIter, outcome) ==
    /\ pc = "none"
    /\ LET n == FailingCall(device, outcome)
       IN  IF n > Len(ConstructOrder)
           THEN /\ pc' = "idle"
                /\ result' = "ok"
                /\ width' = w /\ height' = h /\ maxIterations' = maxIter
                /\ colorMode' = 0 /\ colorShift' = 0
                /\ imageData' = Buf(ImageDataSize(w, h), 0)
                /\ iterations' = Buf(IterationsSize(w, h), 0)
                /\ xArray' = Buf(w, 0)
                /\ yArray' = Buf(h, 0)
                /\ iterationsBuffer' = Buf(IterationsBufferSize(w, h), Uninit)
                /\ rgbBuffer' = Buf(RgbBufferSize(w, h), Uninit)
                /\ xArrayBuffer' = Buf(w, Uninit)
                /\ yArrayBuffer' = Buf(h, Uninit)
                /\ rgbWrites' = Buf(RgbBufferSize(w, h), 0)
                /\ acquired' = AcquiredBefore(n)
           ELSE \* the catch block logs and rethrows: nothing is released
                /\ pc' = "failed"
                /\ result' = ConstructOrder[n].message
                /\ acquired' = AcquiredBefore(n)
                /\ UNCHANGED << fields, hostVectors, deviceBuffers, rgbWrites >>
    /\ UNCHANGED << kernelArgs, callArgs, pending, env, applied, oob, lastFrame >>

(***************************************************************************)
(* The setters.                                                            *)
(***************************************************************************)
setColorMode(mode) ==
    /\ pc = "idle"
    /\ colorMode' = mode
    /\ UNCHANGED << pc, result, width, height, maxIterations, colorShift,
                    hostVectors, deviceBuffers, kernelArgs, callArgs,
                    kernelRun, env, acquired, oob, lastFrame >>

setColorShift(shift) ==
    /\ pc = "idle"
    /\ colorShift' = shift
    /\ UNCHANGED << pc, result, width, height, maxIterations, colorMode,
                    hostVectors, deviceBuffers, kernelArgs, callArgs,
                    kernelRun, env, acquired, oob, lastFrame >>

setMaxIterations_Eager(maxIter) ==
    /\ pc = "idle"
    /\ maxIterations' = maxIter
    /\ kernelArgs' = [kernelArgs EXCEPT !.max_iter = maxIter]
    /\ UNCHANGED << pc, result, width, height, colorMode, colorShift,
                    hostVectors, deviceBuffers, callArgs,
                    kernelRun, env, acquired, oob, lastFrame >>

setMaxIterations(maxIter) ==
    /\ pc = "idle"
    /\ maxIterations' = maxIter
    /\ UNCHANGED << pc, result, width, height, colorMode, colorShift,
                    hostVectors, deviceBuffers, kernelArgs, callArgs,
                    kernelRun, env, acquired, oob, lastFrame >>

(***************************************************************************)
(* MandelbrotViewer::computeFrame, one action per step.  A step that       *)
(* fails throws: the catch block rethrows, the exception leaves the call   *)
(* and unwinds main, which catches it only to exit.  The unwinding runs    *)
(* ~MandelbrotViewer, so no engine is left: the buffers are released and   *)
(* the host vectors destroyed.                                             *)
(***************************************************************************)
Destroyed(message) ==
    /\ pc' = "thrown"
    /\ result' = message
    /\ width' = 0 /\ height' = 0 /\ maxIterations' = 0
    /\ colorMode' = 0 /\ colorShift' = 0
    /\ imageData' = Buf(0, 0) /\ iterations' = Buf(0, 0)
    /\ xArray' = Buf(0, 0) /\ yArray' = Buf(0, 0)
    /\ iterationsBuffer' = Buf(0, 0) /\ rgbBuffer' = Buf(0, 0)
    /\ xArrayBuffer' = Buf(0, 0) /\ yArrayBuffer' = Buf(0, 0)
    /\ kernelArgs' = NoArgs
    /\ centerX' = 0 /\ centerY' = 0 /\ zoom' = 0
    /\ pending' = {}
    /\ rgbWrites' = Buf(0, 0)
    /\ applied' = {}
    /\ lastFrame' = NoFrame
    /\ acquired' = {}

Throw(message) == Destroyed(message) /\ UNCHANGED << env, oob >>

\* the two loops that fill xArray and yArray
RECURSIVE FillX(_, _, _, _, _, _)
FillX(arr, x, w, h, cx, zm) ==
    IF x < w THEN FillX(Store(arr, x, CoordX(x, w, h, cx, zm)), x + 1, w, h, cx, zm)
             ELSE arr

RECURSIVE FillY(_, _, _, _, _)
FillY(arr, y, h, cy, zm) ==
    IF y < h THEN FillY(Store(arr, y, CoordY(y, h, cy, zm)), y + 1, h, cy, zm)
             ELSE arr

CF_Coords(cx, cy, zm) ==
    /\ pc = "idle"
    /\ centerX' = cx /\ centerY' = cy /\ zoom' = zm
    /\ xArray' = FillX(xArray, 0, width, height, cx, zm)
    /\ yArray' = FillY(yArray, 0, height, cy, zm)
    /\ oob' = (oob \/ width > Size(xArray) \/ height > Size(yArray))
    /\ pc' = "writeX"
    /\ UNCHANGED << result, fields, imageData, iterations, deviceBuffers,
                    kernelArgs, kernelRun, env, acquired, lastFrame >>

CF_WriteX_Swallow(ok) ==
    /\ pc = "writeX"
    /\ pending = {}
    /\ xArrayBuffer' \in IF ok /\ width <= Size(xArrayBuffer)
                         THEN Copies(xArrayBuffer, xArray, width, GarbageCoords)
                         ELSE {xArrayBuffer}
    /\ pc' = "writeY"
    /\ UNCHANGED << result, fields, hostVectors, iterationsBuffer, rgbBuffer,
                    yArrayBuffer, kernelArgs, callArgs, kernelRun,
                    env, acquired, oob, lastFrame >>

\* blocking write on the in-order queue: runs after the commands before it
CF_WriteX(ok) ==
    /\ pc = "writeX"
    /\ pending = {}
    /\ IF ok /\ width <= Size(xArrayBuffer)
       THEN /\ xArrayBuffer' \in Copies(xArrayBuffer, xArray, width, GarbageCoords)
            /\ pc' = "writeY"
            /\ UNCHANGED << result, fields, hostVectors, iterationsBuffer, rgbBuffer,
                            yArrayBuffer, kernelArgs, callArgs, kernelRun,
                            env, acquired, oob, lastFrame >>
       ELSE Throw("Failed to write X array")

CF_WriteY(ok) ==
    /\ pc = "writeY"
    /\ pending = {}
    /\ IF ok /\ height <= Size(yArrayBuffer)
       THEN /\ yArrayBuffer' \in Copies(yArrayBuffer, yArray, height, GarbageCoords)
            /\ pc' = "setArgs"
            /\ UNCHANGED << result, fields, hostVectors, iterationsBuffer, rgbBuffer,
                            xArrayBuffer, kernelArgs, callArgs, kernelRun,
                            env, acquired, oob, lastFrame >>
       ELSE Throw("Failed to write Y array")

\* the chain of clSetKernelArg calls stops at the first call that fails
CF_SetArgs(ok) ==
    /\ pc = "setArgs"
    /\ IF ok
       THEN /\ kernelArgs' = [width |-> width, height |-> height,
                              max_iter |-> maxIterations, color_mode |-> colorMode,
                              color_shift |-> colorShift]
            /\ pc' = "enqueue"
            /\ UNCHANGED << result, fields, hostVectors, deviceBuffers, callArgs,
                            kernelRun, env, acquired, oob, lastFrame >>
       ELSE Throw("Failed to set kernel argument")

CF_Enqueue(ok) ==
    /\ pc = "enqueue"
    /\ IF ok
       THEN /\ pending' = 0..(GlobalSize(width, height) - 1)
            /\ rgbWrites' = [i \in DOMAIN rgbBuffer |-> 0]
            /\ applied' = {}
            /\ pc' = "read"
            /\ UNCHANGED << result, fields, hostVectors, deviceBuffers, kernelArgs,
                            callArgs, env, acquired, oob, lastFrame >>
       ELSE Throw("Failed to execute kernel")

(***************************************************************************)
(* One work item of the kernel "mandelbrot", with the arguments the        *)
(* kernel object holds.  It completes when its loop has stopped.           *)
(***************************************************************************)
WorkItem(gid) ==
    /\ gid \in pending
    /\ LET w == kernelArgs.width
           x == PixelX(gid, w)
           y == PixelY(gid, w)
       IN  IF x >= w \/ y >= kernelArgs.height
           THEN UNCHANGED << iterationsBuffer, rgbBuffer, rgbWrites, applied, oob >>
           ELSE \E x0 \in Loads(xArrayBuffer, x, GarbageCoords),
                   y0 \in Loads(yArrayBuffer, y, GarbageCoords) :
                \E iter \in {EscapeTime(x0, y0, kernelArgs.max_iter)} :
                \E rgb \in {PixelRGB(iter, kernelArgs.max_iter, kernelArgs.color_mode,
                                      kernelArgs.color_shift, ucharConv)} :
                LET idx == RgbIndex(gid)
                    cells == {idx, idx + 1, idx + 2}
                IN  /\ iter # NoHalt
                    /\ iterationsBuffer' = Store(iterationsBuffer, gid, iter)
                    /\ rgbBuffer' = StoreRGB(rgbBuffer, idx, rgb)
                    /\ rgbWrites' = [i \in DOMAIN rgbWrites |->
                                        IF i \in cells THEN rgbWrites[i] + 1 ELSE rgbWrites[i]]
                    /\ applied' = IF Escaped(iter, kernelArgs.max_iter)
                                  THEN applied \cup {gid} ELSE applied
                    /\ oob' = (oob \/ x \notin DOMAIN xArrayBuffer
                                   \/ y \notin DOMAIN yArrayBuffer
                                   \/ gid \notin DOMAIN iterationsBuffer
                                   \/ ~(cells \subseteq DOMAIN rgbBuffer))
    /\ pending' = pending \ {gid}
    /\ UNCHANGED << pc, result, fields, hostVectors, xArrayBuffer, yArrayBuffer,
                    kernelArgs, callArgs, env, acquired, lastFrame >>

\* the parameters a frame is computed from
FrameParams ==
    << width, height, centerX, centerY, zoom, maxIterations, colorMode, colorShift >>

\* blocking read of the RGB buffer on the in-order queue: it completes, with
\* the data or with an error, once the kernel enqueued before it has finished
CF_Read(ok) ==
    /\ pc = "read"
    /\ pending = {}
    /\ IF ok /\ ReadSize(width, height) <= Size(rgbBuffer)
       THEN /\ imageData' \in Copies(imageData, rgbBuffer, ReadSize(width, height), GarbageBytes)
            /\ oob' = (oob \/ ReadSize(width, height) > Size(imageData))
            /\ lastFrame' = [valid |-> TRUE, params |-> FrameParams,
                             repeated |-> lastFrame.valid /\ lastFrame.params = FrameParams]
            /\ pc' = "idle"
            /\ result' = "ok"
            /\ centerX' = 0 /\ centerY' = 0 /\ zoom' = 0
            /\ UNCHANGED << fields, iterations, xArray, yArray, deviceBuffers,
                            kernelArgs, kernelRun, env, acquired >>
       ELSE Throw("Failed to read RGB buffer")

\* where a round trip of the resolution is followed: the frame imageData
\* holds when the resolution is first changed, with its parameters, and
\* whether the resolution has differed from that frame's since
BeforeResize(newWidth, newHeight) ==
    IF lastFrame.valid
    THEN [kind |-> "trip", valid |-> TRUE, params |-> lastFrame.params,
          image |-> imageData,
          away |-> << newWidth, newHeight >> # << width, height >>]
    ELSE IF probe.valid
    THEN [probe EXCEPT !.away = @ \/ << newWidth, newHeight >> # << probe.params[1], probe.params[2] >>]
    ELSE probe

(***************************************************************************)
(* resize: the resolution changes and every host vector and device buffer  *)
(* is recreated for it.                                                    *)
(***************************************************************************)
Resized(newWidth, newHeight) ==
    /\ width' = newWidth /\ height' = newHeight
    /\ imageData' = Buf(newWidth * newHeight * 3, 0)
    /\ iterations' = Buf(newWidth * newHeight, 0)
    /\ xArray' = Buf(newWidth, 0)
    /\ yArray' = Buf(newHeight, 0)
    /\ iterationsBuffer' = Buf(newWidth * newHeight, Uninit)
    /\ rgbBuffer' = Buf(newWidth * newHeight * 3, Uninit)
    /\ xArrayBuffer' = Buf(newWidth, Uninit)
    /\ yArrayBuffer' = Buf(newHeight, Uninit)
    /\ pending' = {}
    /\ rgbWrites' = Buf(newWidth * newHeight * 3, 0)
    /\ applied' = {}
    /\ lastFrame' = NoFrame

resize(newWidth, newHeight) ==
    /\ pc = "idle"
    /\ Resized(newWidth, newHeight)
    /\ probe' = IF probe.kind = "trip" THEN BeforeResize(newWidth, newHeight) ELSE probe
    /\ UNCHANGED << pc, result, maxIterations, colorMode, colorShift, kernelArgs,
                    callArgs, ucharConv, device, acquired, oob, program >>

Next ==
    \/ \E w \in Widths, h \in Heights, maxIter \in IterValues,
          outcome \in {"ok"} \cup ConstructErrors : Construct(w, h, maxIter, outcome)
    \/ \E mode \in ModeValues : setColorMode(mode)
    \/ \E shift \in ShiftValues : setColorShift(shift)
    \/ \E maxIter \in IterValues : setMaxIterations(maxIter)
    \/ \E cx \in CenterXValues, cy \in CenterYValues, zm \in ZoomValues : CF_Coords(cx, cy, zm)
    \/ \E ok \in BOOLEAN : CF_WriteX(ok)
    \/ \E ok \in BOOLEAN : CF_WriteY(ok)
    \/ \E ok \in BOOLEAN : CF_SetArgs(ok)
    \/ \E ok \in BOOLEAN : CF_Enqueue(ok)
    \/ \E gid \in pending : WorkItem(gid)
    \/ \E ok \in BOOLEAN : CF_Read(ok)
    \/ \E w \in Widths, h \in Heights : resize(w, h)

Spec == Init /\ [][Next]_vars

(***************************************************************************)
(* Frames computed one after the other by an engine whose parameters were  *)
(* set before: the engine as constructed for a resolution, its setters     *)
(* called, and from then on computeFrame only.  The device runs the work   *)
(* items of an enqueued kernel and the blocking read returns.              *)
(***************************************************************************)
InitFrames ==
    /\ pc = "idle"
    /\ result = "ok"
    /\ width \in Widths /\ height \in Heights
    /\ maxIterations \in IterValues
    /\ colorMode \in ModeValues /\ colorShift \in ShiftValues
    /\ imageData = Buf(ImageDataSize(width, height), 0)
    /\ iterations = Buf(IterationsSize(width, height), 0)
    /\ xArray = Buf(width, 0) /\ yArray = Buf(height, 0)
    /\ iterationsBuffer = Buf(IterationsBufferSize(width, height), Uninit)
    /\ rgbBuffer = Buf(RgbBufferSize(width, height), Uninit)
    /\ xArrayBuffer = Buf(width, Uninit) /\ yArrayBuffer = Buf(height, Uninit)
    /\ kernelArgs = NoArgs
    /\ centerX = 0 /\ centerY = 0 /\ zoom = 0
    /\ pending = {}
    /\ ucharConv \in UcharConvs
    /\ rgbWrites = Buf(RgbBufferSize(width, height), 0)
    /\ applied = {}
    /\ oob = FALSE
    /\ lastFrame = NoFrame
    /\ probe = NoProbe
    /\ device = "GPU with double"
    /\ acquired = AcquiredBefore(Len(ConstructOrder) + 1)
    /\ mainPc = "none" /\ ui = NoUi /\ shown = NoShown

NextFrames ==
    \/ \E cx \in CenterXValues, cy \in CenterYValues, zm \in ZoomValues : CF_Coords(cx, cy, zm)
    \/ \E ok \in BOOLEAN : CF_WriteX(ok)
    \/ \E ok \in BOOLEAN : CF_WriteY(ok)
    \/ \E ok \in BOOLEAN : CF_SetArgs(ok)
    \/ \E ok \in BOOLEAN : CF_Enqueue(ok)
    \/ \E gid \in pending : WorkItem(gid)
    \/ \E ok \in BOOLEAN : CF_Read(ok)

\* the escape loop of work item gid stops: the item returns at the guard, or
\* its loop leaves on some pair of coordinates it can load
ItemHalts(gid) ==
    LET w == kernelArgs.width
        x == PixelX(gid, w)
        y == PixelY(gid, w)
    IN  \/ x >= w \/ y >= kernelArgs.height
        \/ \E x0 \in Loads(xArrayBuffer, x, GarbageCoords),
              y0 \in Loads(yArrayBuffer, y, GarbageCoords) :
              EscapeTime(x0, y0, kernelArgs.max_iter) # NoHalt

\* a work item whose loop stops finishes.  Under NextFrames these are the
\* WorkItem steps, and the action is enabled exactly when a WorkItem step is.
KernelProgress == \E gid \in pending : ItemHalts(gid) /\ pending' = pending \ {gid}

\* the device runs every enqueued work item that can run, and the blocking
\* read returns once the kernel has finished
FairFrames ==
    /\ InitFrames
    /\ [][NextFrames]_vars
    /\ WF_pending(KernelProgress)
    /\ WF_vars(\E ok \in BOOLEAN : CF_Read(ok))

(***************************************************************************)
(* Frames and resizes of an engine whose parameters stay as set.           *)
(***************************************************************************)
InitTrip ==
    /\ pc = "idle"
    /\ result = "ok"
    /\ width \in Widths /\ height \in Heights
    /\ maxIterations = MaxIter
    /\ colorMode \in ModeValues /\ colorShift = Fx(18, 10)
    /\ imageData = Buf(ImageDataSize(width, height), 0)
    /\ iterations = Buf(IterationsSize(width, height), 0)
    /\ xArray = Buf(width, 0) /\ yArray = Buf(height, 0)
    /\ iterationsBuffer = Buf(IterationsBufferSize(width, height), Uninit)
    /\ rgbBuffer = Buf(RgbBufferSize(width, height), Uninit)
    /\ xArrayBuffer = Buf(width, Uninit) /\ yArrayBuffer = Buf(height, Uninit)
    /\ kernelArgs = NoArgs
    /\ centerX = 0 /\ centerY = 0 /\ zoom = 0
    /\ pending = {}
    /\ ucharConv \in UcharConvs
    /\ rgbWrites = Buf(RgbBufferSize(width, height), 0)
    /\ applied = {}
    /\ oob = FALSE
    /\ lastFrame = NoFrame
    /\ probe = [kind |-> "trip", valid |-> FALSE]
    /\ device = "GPU with double"
    /\ acquired = AcquiredBefore(Len(ConstructOrder) + 1)
    /\ mainPc = "none" /\ ui = NoUi /\ shown = NoShown

NextTrip ==
    \/ \E cx \in CenterXValues, cy \in CenterYValues, zm \in ZoomValues : CF_Coords(cx, cy, zm)
    \/ \E ok \in BOOLEAN : CF_WriteX(ok)
    \/ \E ok \in BOOLEAN : CF_WriteY(ok)
    \/ \E ok \in BOOLEAN : CF_SetArgs(ok)
    \/ \E ok \in BOOLEAN : CF_Enqueue(ok)
    \/ \E gid \in pending : WorkItem(gid)
    \/ \E ok \in BOOLEAN : CF_Read(ok)
    \/ \E w \in Widths, h \in Heights : resize(w, h)

SpecTrip == InitTrip /\ [][NextTrip]_vars

(***************************************************************************)
(* The escape-time evaluator applied on its own to a point and a cap.      *)
(***************************************************************************)
InitEval ==
    /\ pc = "none"
    /\ result = "ok"
    /\ width = 0 /\ height = 0 /\ maxIterations = 0
    /\ colorMode = 0 /\ colorShift = 0
    /\ imageData = Buf(0, 0) /\ iterations = Buf(0, 0)
    /\ xArray = Buf(0, 0) /\ yArray = Buf(0, 0)
    /\ iterationsBuffer = Buf(0, 0) /\ rgbBuffer = Buf(0, 0)
    /\ xArrayBuffer = Buf(0, 0) /\ yArrayBuffer = Buf(0, 0)
    /\ kernelArgs = NoArgs
    /\ centerX = 0 /\ centerY = 0 /\ zoom = 0
    /\ pending = {}
    /\ ucharConv \in UcharConvs
    /\ rgbWrites = Buf(0, 0)
    /\ applied = {}
    /\ oob = FALSE
    /\ lastFrame = NoFrame
    /\ probe \in [kind : {"point"}, x0 : PointValues, y0 : PointValues,
                  max_iter : EvalIterValues]
    /\ device = "GPU with double"
    /\ acquired = {}
    /\ mainPc = "none" /\ ui = NoUi /\ shown = NoShown

Evaluate ==
    /\ probe.kind = "point"
    /\ EscapeTime(probe.x0, probe.y0, probe.max_iter) # NoHalt
    /\ probe' = [kind |-> "eval", x0 |-> probe.x0, y0 |-> probe.y0,
                 max_iter |-> probe.max_iter,
                 iter |-> EscapeTime(probe.x0, probe.y0, probe.max_iter)]
    /\ UNCHANGED engine

NextEval == Evaluate

SpecEval == InitEval /\ [][NextEval]_vars

TypeOK ==
    /\ pc \in {"none", "failed", "thrown", "idle", "writeX", "writeY", "setArgs", "enqueue", "read"}
    /\ ucharConv \in UcharConvs
    /\ oob \in BOOLEAN

(***************************************************************************)
(* Properties.                                                             *)
(***************************************************************************)

\* the image a frame of the given parameters consists of: byte i belongs to
\* pixel i \div 3, whose point is given by the coordinate mapping
FrameImage(w, h, cx, cy, zm, max_iter, color_mode, color_shift, conv) ==
    [i \in 0..(3 * w * h - 1) |->
        LET gid == i \div 3
            x0 == CoordX(gid % w, w, h, cx, zm)
            y0 == CoordY(gid \div w, h, cy, zm)
            iter == EscapeTime(x0, y0, max_iter)
        IN  PixelRGB(iter, max_iter, color_mode, color_shift, conv)[(i % 3) + 1]]

StepOrder ==
    { <<"none", "idle">>, <<"none", "failed">>, <<"idle", "writeX">>,
      <<"writeX", "writeY">>, <<"writeY", "setArgs">>, <<"setArgs", "enqueue">>,
      <<"enqueue", "read">>, <<"read", "idle">> }
    \cup { <<p, "thrown">> : p \in {"writeX", "writeY", "setArgs", "enqueue", "read"} }

\* C1: the steps of computeFrame run in their order (coordinates, the two
\* writes, the kernel arguments, the dispatch, the read), and when the call
\* returns normally imageData is the image of the resolution, the center
\* and zoom of that call and the engine's maxIterations, palette and
\* colour shift: no byte of it is older.
C1_FrameReflectsCall ==
    [][ /\ (pc' # pc => <<pc, pc'>> \in StepOrder)
        /\ (pc = "read" /\ pc' = "idle" =>
               /\ result' = "ok"
               /\ imageData' = FrameImage(width, height, centerX, centerY, zoom,
                                          maxIterations, colorMode, colorShift, ucharConv)) ]_vars

\* a call has returned normally with an image that is not all black
C1_Witness ==
    /\ pc = "idle" /\ result = "ok" /\ lastFrame.valid
    /\ width = 2 /\ height = 2
    /\ \E i \in DOMAIN imageData : imageData[i] # 0
    /\ \E i \in DOMAIN imageData : imageData[i] = 0

\* what work item gid stores, from the coordinate buffers xb and yb and the
\* kernel arguments ka alone, and that the buffers ib and rb hold it
ItemIter(xb, yb, ka, gid) ==
    EscapeTime(xb[gid % ka.width], yb[gid \div ka.width], ka.max_iter)

ItemRGB(xb, yb, ka, gid) ==
    PixelRGB(ItemIter(xb, yb, ka, gid), ka.max_iter, ka.color_mode, ka.color_shift,
             ucharConv)

ItemDone(ib, rb, xb, yb, ka, gid) ==
    /\ ib[gid] = ItemIter(xb, yb, ka, gid)
    /\ << rb[3 * gid], rb[3 * gid + 1], rb[3 * gid + 2] >> = ItemRGB(xb, yb, ka, gid)

\* C2: a work item gid changes iterations_out[gid] and rgb_out[3*gid..3*gid+2]
\* and nothing else, what it stores depends on the coordinate arrays and the
\* scalar arguments only, no cell is stored twice in a run, and so whatever
\* the order of the work items the buffers of a finished run are the same.
C2_WorkItemsIndependent ==
    [][ /\ (pc = "read" /\ pc' = "read" /\ pending' # pending =>
               \E gid \in pending :
                  /\ pending' = pending \ {gid}
                  /\ \A g \in DOMAIN iterationsBuffer :
                        g # gid => iterationsBuffer'[g] = iterationsBuffer[g]
                  /\ \A i \in DOMAIN rgbBuffer :
                        i \notin {3 * gid, 3 * gid + 1, 3 * gid + 2} => rgbBuffer'[i] = rgbBuffer[i]
                  /\ UNCHANGED << xArrayBuffer, yArrayBuffer, kernelArgs >>
                  /\ ItemDone(iterationsBuffer', rgbBuffer', xArrayBuffer, yArrayBuffer,
                              kernelArgs, gid)
                  /\ \A i \in DOMAIN rgbWrites : rgbWrites'[i] <= 1)
        /\ (pc' = "read" /\ pending' = {} =>
               \A gid \in 0..(width * height - 1) :
                  ItemDone(iterationsBuffer', rgbBuffer', xArrayBuffer', yArrayBuffer',
                           kernelArgs', gid)) ]_vars

\* work items have run out of order: 1 and 2 before 0 and 3
C2_Witness ==
    /\ pc = "read" /\ width = 2 /\ height = 2
    /\ pending = {0, 3}
    /\ rgbWrites[3] = 1 /\ rgbWrites[6] = 1

\* C3: the evaluator returns a count between 0 and maxIterations.
C3_IterInRange ==
    probe.kind = "eval" => probe.iter >= 0 /\ probe.iter <= probe.max_iter

\* the evaluator has returned one less than the largest cap: the loop ran
\* MaxEvalIter - 1 passes and then left on the radius test
C3_Witness ==
    /\ probe.kind = "eval"
    /\ probe.max_iter = MaxEvalIter
    /\ probe.iter = MaxEvalIter - 1

\* C4: once the kernel is dispatched every work item is eventually run, its
\* loop having stopped after at most max_iter passes, and the call then
\* leaves the read.
C4_FrameCompletes ==
    /\ (pc = "read") ~> (pc = "read" /\ pending = {}
                          /\ \A i \in DOMAIN rgbWrites : rgbWrites[i] = 1
                          /\ \A gid \in DOMAIN iterationsBuffer :
                                iterationsBuffer[gid] \in 0..kernelArgs.max_iter)
    /\ (pc = "read") ~> (pc \in {"idle", "thrown"})

\* a dispatched kernel has finished, one of its loops having run to the cap
C4_Witness ==
    /\ pc = "read" /\ pending = {}
    /\ width = 2 /\ height = 2 /\ kernelArgs.max_iter = MaxIter
    /\ \E gid \in DOMAIN iterationsBuffer : iterationsBuffer[gid] = MaxIter

\* C5: a pixel whose count equals max_iter gets the bytes 0,0,0 and does not
\* take the branch that smooths and colours.
C5_InteriorBlack ==
    pc \in {"read", "idle"} =>
        \A gid \in DOMAIN iterationsBuffer :
            (rgbWrites[3 * gid] >= 1 /\ iterationsBuffer[gid] = kernelArgs.max_iter) =>
                /\ rgbBuffer[3 * gid] = 0 /\ rgbBuffer[3 * gid + 1] = 0
                /\ rgbBuffer[3 * gid + 2] = 0
                /\ gid \notin applied

\* a frame with a known palette holds an interior pixel, black, next to an
\* escaped one that is not
C5_Witness ==
    /\ pc = "idle" /\ lastFrame.valid
    /\ kernelArgs.color_mode \in 0..5
    /\ \E gid \in DOMAIN iterationsBuffer :
          iterationsBuffer[gid] = kernelArgs.max_iter /\ imageData[3 * gid] = 0
    /\ \E gid \in applied : imageData[3 * gid] # 0

\* C6: with a palette selector outside 0..5 the frame that returns is all
\* black, escaped pixels included.
C6_UnknownPaletteBlack ==
    /\ (pc = "idle" /\ lastFrame.valid /\ lastFrame.params[7] \notin 0..5) =>
           \A i \in DOMAIN imageData : imageData[i] = 0
    /\ (pc = "read" /\ kernelArgs.color_mode \notin 0..5) =>
           \A i \in DOMAIN rgbBuffer : rgbWrites[i] >= 1 => rgbBuffer[i] = 0

\* a frame with selector 6 has returned normally, some of its pixels escaped
C6_Witness ==
    /\ pc = "idle" /\ result = "ok" /\ lastFrame.valid
    /\ lastFrame.params[7] = 6
    /\ applied # {}

\* the engine exists and is not being torn down
Live == {"idle", "writeX", "writeY", "setArgs", "enqueue", "read"}

\* C7: from construction on, through resizes and frames, imageData and the
\* device RGB buffer hold 3 * width * height bytes and the iteration vector
\* and buffer width * height counts, for the engine's current width and
\* height; no step of computeFrame that leaves the engine in place changes
\* width, height or the length of a vector or buffer.
C7_BufferSizes ==
    [][ /\ (pc' \in Live =>
               /\ Size(imageData') = 3 * width' * height'
               /\ Size(rgbBuffer') = 3 * width' * height'
               /\ Size(iterations') = width' * height'
               /\ Size(iterationsBuffer') = width' * height')
        /\ (pc \in Live /\ pc' \in Live /\ ~(pc = "idle" /\ pc' = "idle") =>
               /\ width' = width /\ height' = height
               /\ DOMAIN imageData' = DOMAIN imageData
               /\ DOMAIN iterations' = DOMAIN iterations
               /\ DOMAIN xArray' = DOMAIN xArray
               /\ DOMAIN yArray' = DOMAIN yArray
               /\ DOMAIN rgbBuffer' = DOMAIN rgbBuffer
               /\ DOMAIN iterationsBuffer' = DOMAIN iterationsBuffer
               /\ DOMAIN xArrayBuffer' = DOMAIN xArrayBuffer
               /\ DOMAIN yArrayBuffer' = DOMAIN yArrayBuffer) ]_vars

\* a frame has completed at a resolution that is not square
C7_Witness ==
    /\ pc = "idle" /\ result = "ok" /\ lastFrame.valid
    /\ width = 2 /\ height = 1
    /\ Size(imageData) = 6 /\ Size(iterations) = 2

\* C8: in a run of the kernel every work item gid below width * height gets
\* x = gid mod width below width and y = gid / width below height, its loads
\* and stores fall inside their buffers, no cell of the RGB buffer is stored
\* twice, and when the run has finished every cell has been stored once.
C8_IndicesInBounds ==
    /\ ~oob
    /\ \A i \in DOMAIN rgbWrites : rgbWrites[i] <= 1
    /\ pc = "read" =>
          /\ kernelArgs.width = width /\ kernelArgs.height = height
          /\ \A gid \in 0..(width * height - 1) :
                /\ PixelX(gid, width) \in 0..(width - 1)
                /\ PixelY(gid, width) \in 0..(height - 1)
                /\ gid = PixelY(gid, width) * width + PixelX(gid, width)
                /\ PixelX(gid, width) \in DOMAIN xArrayBuffer
                /\ PixelY(gid, width) \in DOMAIN yArrayBuffer
                /\ gid \in DOMAIN iterationsBuffer
                /\ {RgbIndex(gid), RgbIndex(gid) + 1, RgbIndex(gid) + 2} \subseteq DOMAIN rgbBuffer
          /\ pending = {} =>
                /\ DOMAIN rgbWrites = DOMAIN rgbBuffer
                /\ \A i \in DOMAIN rgbBuffer : rgbWrites[i] = 1 /\ rgbBuffer[i] # Uninit
                /\ \A gid \in DOMAIN iterationsBuffer : iterationsBuffer[gid] # Uninit
    /\ (pc = "idle" /\ lastFrame.valid) =>
          \A i \in DOMAIN rgbBuffer : rgbWrites[i] = 1

\* a run over one column of two rows has finished
C8_Witness ==
    /\ pc = "read" /\ pending = {}
    /\ width = 1 /\ height = 2
    /\ \A i \in 0..5 : rgbWrites[i] = 1

\* C9: a frame computed with the parameters and the resolution of the frame
\* before it returns the same bytes, and the bytes a frame returns were all
\* stored by its own run of the kernel: none is left from an earlier frame.
C9_Idempotent ==
    [][ (pc = "read" /\ pc' = "idle") =>
           /\ (lastFrame.valid /\ lastFrame.params = FrameParams => imageData' = imageData)
           /\ \A i \in DOMAIN imageData' : rgbWrites[i] = 1 /\ imageData'[i] = rgbBuffer[i] ]_vars

\* the same frame has been computed twice in a row, and it is not all black
C9_Witness ==
    /\ pc = "idle" /\ lastFrame.valid /\ lastFrame.repeated
    /\ \E i \in DOMAIN imageData : imageData[i] # 0

\* C10: a setter changes its own field and nothing else: the other fields,
\* the resolution, imageData, every vector and buffer and the arguments held
\* by the kernel stay as they are; the value reaches the kernel when the
\* next computeFrame sets the arguments.
C10_SettersOnlyOwnField ==
    [][ /\ (pc = "idle" /\ pc' = "idle"
               /\ << maxIterations, colorMode, colorShift >>' # << maxIterations, colorMode, colorShift >> =>
               /\ \/ maxIterations' # maxIterations /\ UNCHANGED << colorMode, colorShift >>
                  \/ colorMode' # colorMode /\ UNCHANGED << maxIterations, colorShift >>
                  \/ colorShift' # colorShift /\ UNCHANGED << maxIterations, colorMode >>
               /\ UNCHANGED << width, height, result, hostVectors, deviceBuffers, kernelArgs,
                               callArgs, kernelRun, lastFrame >>)
        /\ (pc = "setArgs" /\ pc' = "enqueue" =>
               /\ kernelArgs'.max_iter = maxIterations
               /\ kernelArgs'.color_mode = colorMode
               /\ kernelArgs'.color_shift = colorShift) ]_vars

\* after a frame a setter has changed maxIterations: the kernel still holds
\* the old value and imageData is still the frame computed with it
C10_Witness ==
    /\ pc = "idle" /\ lastFrame.valid
    /\ maxIterations # lastFrame.params[6]
    /\ kernelArgs.max_iter = lastFrame.params[6]
    /\ imageData = FrameImage(width, height, lastFrame.params[3], lastFrame.params[4],
                              lastFrame.params[5], lastFrame.params[6], colorMode,
                              colorShift, ucharConv)
    /\ \E i \in DOMAIN imageData : imageData[i] # 0

\* C17: applied to the point (0,0) the evaluator returns the cap, for every
\* cap N > 0.
C17_OriginReturnsCap ==
    (probe.kind = "eval" /\ probe.x0 = 0 /\ probe.y0 = 0) => probe.iter = probe.max_iter

\* the evaluator was applied to (0,0) with the largest cap and returned it
C17_Witness ==
    /\ probe.kind = "eval" /\ probe.x0 = 0 /\ probe.y0 = 0
    /\ probe.max_iter = MaxEvalIter /\ probe.iter = MaxEvalIter

\* C18: applied to a point whose own squared modulus exceeds 4 the evaluator
\* returns at most 2, whatever the cap.
C18_FarPointSmallCount ==
    (probe.kind = "eval"
        /\ FxMul(probe.x0, probe.x0) + FxMul(probe.y0, probe.y0) > 4 * ONE) => probe.iter <= 2

\* the evaluator was applied to (1000,1000) with the largest cap and returned 1
C18_Witness ==
    /\ probe.kind = "eval" /\ probe.x0 = 1000 * ONE /\ probe.y0 = 1000 * ONE
    /\ probe.max_iter = MaxEvalIter /\ probe.iter = 1

\* C19: the evaluator never returns 0 for a cap above 0; a count below the
\* cap lies in 1..cap - 1 and its ratio to the cap strictly between 0 and 1.
C19_EscapedCountInside ==
    probe.kind = "eval" =>
        /\ probe.iter >= 1
        /\ probe.iter < probe.max_iter =>
              /\ probe.iter <= probe.max_iter - 1
              /\ FxDiv(probe.iter * ONE, probe.max_iter * ONE) > 0
              /\ FxDiv(probe.iter * ONE, probe.max_iter * ONE) < ONE

\* a point has escaped on the first test after the first pass, under a cap
\* above 1
C19_Witness ==
    /\ probe.kind = "eval" /\ probe.iter = 1 /\ probe.max_iter = 2
    /\ FxDiv(probe.iter * ONE, probe.max_iter * ONE) = ONE \div 2

\* the colour the kernel computes for a pixel that took the colouring branch
\* with count iter
ItemColor(ka, iter) ==
    PaletteColor(ka.color_mode, apply_log_smooth(FxDiv(iter * ONE, ka.max_iter * ONE)),
                 ka.color_shift)

\* C20: for every pixel of a run that took the colouring branch, with the
\* colour shift in [0, 2*pi) and one of the six palettes, the three channels
\* of the palette lie in [0, 1] and channel * 255 in [0, 255].
C20_ChannelsInUnit ==
    (pc \in {"read", "idle"} /\ kernelArgs.color_mode \in 0..5
        /\ kernelArgs.color_shift >= 0 /\ kernelArgs.color_shift < 2 * M_PI) =>
        \A gid \in applied :
            \A c \in 1..3 :
                LET channel == ItemColor(kernelArgs, iterationsBuffer[gid])[c]
                IN  /\ channel >= 0 /\ channel <= ONE
                    /\ FxMul(channel, 255 * ONE) >= 0
                    /\ FxMul(channel, 255 * ONE) <= 255 * ONE

\* the message thrown by each step of computeFrame that can fail
StepMessage ==
    [step \in {"writeX", "writeY", "setArgs", "enqueue", "read"} |->
        CASE step = "writeX" -> "Failed to write X array"
          [] step = "writeY" -> "Failed to write Y array"
          [] step = "setArgs" -> "Failed to set kernel argument"
          [] step = "enqueue" -> "Failed to execute kernel"
          [] step = "read" -> "Failed to read RGB buffer"]

\* C14: a step of computeFrame that fails ends the call with the step's
\* message as the exception, no later step running, and the call goes on to
\* the next step, or returns, only when the step has had its effect; once
\* an exception has left the call nothing returns normally.
C14_FailurePropagates ==
    [][ /\ (pc \in DOMAIN StepMessage /\ pc' = "thrown" =>
               /\ result' = StepMessage[pc]
               /\ pending' = {})
        /\ (pc = "writeX" /\ pc' # pc /\ pc' # "thrown" =>
               pc' = "writeY" /\ xArrayBuffer' = xArray)
        /\ (pc = "writeY" /\ pc' # pc /\ pc' # "thrown" =>
               pc' = "setArgs" /\ yArrayBuffer' = yArray)
        /\ (pc = "setArgs" /\ pc' # pc /\ pc' # "thrown" =>
               /\ pc' = "enqueue"
               /\ kernelArgs' = [width |-> width, height |-> height,
                                 max_iter |-> maxIterations, color_mode |-> colorMode,
                                 color_shift |-> colorShift])
        /\ (pc = "enqueue" /\ pc' # pc /\ pc' # "thrown" =>
               pc' = "read" /\ pending' = 0..(width * height - 1))
        /\ (pc = "read" /\ pc' # pc /\ pc' # "thrown" =>
               pc' = "idle" /\ result' = "ok" /\ imageData' = rgbBuffer)
        /\ (pc = "thrown" => pc' = "thrown" /\ result' = result) ]_vars

\* the dispatch of the kernel has failed after both writes and the setting
\* of the arguments succeeded, and the exception has left the call
C14_Witness ==
    pc = "thrown" /\ result = "Failed to execute kernel"

\* the messages that report a missing device and missing double precision
DeviceUnavailable == {"Failed to get OpenCL platform", "Failed to get OpenCL device"}
PrecisionUnsupported == {"Double precision not supported"}

\* C12: without a platform, without a GPU or without double precision the
\* construction fails and no engine is ever in use; a missing device is
\* reported with a message of DeviceUnavailable, missing precision, once the
\* device has been found, with the message of PrecisionUnsupported, and the
\* two sets have no message in common.
C12_ConstructionFails ==
    /\ DeviceUnavailable \cap PrecisionUnsupported = {}
    /\ (pc \in Live \/ pc = "thrown" \/ lastFrame.valid) => device = "GPU with double"
    /\ (pc = "failed" /\ device \in {"no platform", "no GPU"}) => result \in DeviceUnavailable
    /\ (pc = "failed" /\ device = "no platform") => result = "Failed to get OpenCL platform"
    /\ (pc = "failed" /\ device = "no double") =>
           result \in DeviceUnavailable \cup PrecisionUnsupported
    /\ (pc = "failed" /\ device # "GPU with double") => acquired = {}

\* the construction has failed on a GPU that has no double precision, with
\* the message for it
C12_Witness ==
    /\ pc = "failed" /\ device = "no double"
    /\ result = "Double precision not supported"

\* C13: once the constructor has thrown or the destructor has run no
\* context, queue, program, kernel or buffer is still acquired.
C13_AllReleased ==
    pc \in {"failed", "thrown"} => acquired = {}

\* C11: the first frame computed after the resolution was changed and
\* changed back, with the parameters of the frame held before the change,
\* has the bytes of that frame.
C11_ResizeRoundTrip ==
    [][ (pc = "read" /\ pc' = "idle" /\ probe.kind = "trip" /\ probe.valid
            /\ ~lastFrame.valid /\ probe.params = FrameParams) =>
           imageData' = probe.image ]_vars

\* a frame was computed at 2x1, the engine resized to another resolution
\* and back, and the frame computed again: it is the frame held before, and
\* it is not all black
C11_Witness ==
    /\ pc = "idle" /\ lastFrame.valid /\ ~lastFrame.repeated
    /\ probe.kind = "trip" /\ probe.valid /\ probe.away
    /\ probe.params = lastFrame.params
    /\ width = 2 /\ height = 1
    /\ imageData = probe.image
    /\ \E i \in DOMAIN imageData : imageData[i] # 0

(***************************************************************************)
(* main.cpp: the program's loop around one engine.  The window is created, *)
(* the engine constructed for its size, and each pass of the loop handles  *)
(* the queued events, runs the menu action that is due and computes and    *)
(* shows a frame.  The doubles of main are fixed-point numbers as in the   *)
(* kernel.                                                                 *)
(***************************************************************************)
DEFAULT_MAX_ITERATIONS == 200
DEFAULT_COLOR_SHIFT == Fx(18, 10)
margin == 100

\* the windowed resolution, 800 x 600 in the source, at the scale of the
\* resolutions followed here
WindowedWidth == 1
WindowedHeight == 1

\* user events handled in one run of the program
MaxEvents == 3

\* the modes of the display: the maximized window is smaller by the margin
DisplayModes == { [w |-> w + margin, h |-> h + margin] : w \in Widths, h \in Heights }

\* the records a view-state file can hold: loadViewState reads sizeof(ViewState)
\* bytes as they are, so any values
FileStates ==
    { [centerX |-> 0, centerY |-> 0, zoom |-> 2 * ONE, maxIterations |-> 100,
       colorMode |-> 4, colorShift |-> 0, highQualityMode |-> FALSE,
       highQualityMultiplier |-> 2],
      [centerX |-> 0, centerY |-> 0, zoom |-> -ONE, maxIterations |-> 0,
       colorMode |-> 7, colorShift |-> -ONE, highQualityMode |-> TRUE,
       highQualityMultiplier |-> 0] }

\* int division of C++: the quotient is truncated toward zero
IntDiv(a, b) == IF a >= 0 THEN a \div b ELSE -((-a) \div b)

EffectiveMaxIter(u) ==
    IF u.highQualityMode THEN u.maxIterations * u.highQualityMultiplier
                         ELSE u.maxIterations

saveViewToHistory_NoLimit(history, cx, cy, zm, maxIter) ==
    Append(history, [centerX |-> cx, centerY |-> cy, zoom |-> zm,
                     maxIterations |-> maxIter])

saveViewToHistory(history, cx, cy, zm, maxIter) ==
    LET pushed == Append(history, [centerX |-> cx, centerY |-> cy, zoom |-> zm,
                                   maxIterations |-> maxIter])
    IN  IF Len(pushed) > 50 THEN Tail(pushed) ELSE pushed

adjustQualityMultiplier_NoFloor(increase, multiplier, minMultiplier) ==
    IF increase THEN min(multiplier * 2, 320)
                ELSE IntDiv(multiplier, 2)

adjustQualityMultiplier(increase, multiplier, minMultiplier) ==
    IF increase THEN min(multiplier * 2, 320)
                ELSE max(IntDiv(multiplier, 2), minMultiplier)

\* the view after a turn of the mouse wheel with the pointer at a pixel
WheelZoom(u, up, mouseX, mouseY) ==
    LET offX == mouseX * ONE - FxDiv(u.WINDOW_WIDTH * ONE, 2 * ONE)
        offY == mouseY * ONE - FxDiv(u.WINDOW_HEIGHT * ONE, 2 * ONE)
        mouseXPlane == u.centerX + FxDiv(FxMul(offX, FxDiv(4 * ONE, u.zoom)),
                                         u.WINDOW_WIDTH * ONE)
        mouseYPlane == u.centerY - FxDiv(FxMul(offY, FxDiv(4 * ONE, u.zoom)),
                                         u.WINDOW_HEIGHT * ONE)
        newZoom == IF up THEN FxMul(u.zoom, Fx(11, 10)) ELSE FxDiv(u.zoom, Fx(11, 10))
        newX == mouseXPlane - FxDiv(FxMul(offX, FxDiv(4 * ONE, newZoom)),
                                    u.WINDOW_WIDTH * ONE)
        newY == mouseYPlane + FxDiv(FxMul(offY, FxDiv(4 * ONE, newZoom)),
                                    u.WINDOW_HEIGHT * ONE)
    IN  [u EXCEPT !.zoom = newZoom, !.centerX = newX, !.centerY = newY,
                  !.zoomHistory = saveViewToHistory(@, newX, newY, newZoom,
                                                    u.maxIterations)]

\* the view after resetView
ResetView(u) ==
    [u EXCEPT !.centerX = -Fx(1, 2), !.centerY = 0, !.zoom = ONE,
              !.maxIterations = DEFAULT_MAX_ITERATIONS]

\* the view after a view-state record has been loaded
LoadedView(u, state) ==
    [u EXCEPT !.centerX = state.centerX, !.centerY = state.centerY,
              !.zoom = state.zoom, !.maxIterations = state.maxIterations,
              !.colorMode = state.colorMode, !.colorShift = state.colorShift,
              !.highQualityMode = state.highQualityMode,
              !.highQualityMultiplier = state.highQualityMultiplier]

InitMain ==
    /\ mainPc = "poll"
    /\ ui = [centerX |-> -Fx(1, 2), centerY |-> 0, zoom |-> Fx(3, 2),
             colorMode |-> 1, colorShift |-> DEFAULT_COLOR_SHIFT,
             maxIterations |-> DEFAULT_MAX_ITERATIONS,
             highQualityMode |-> TRUE, highQualityMultiplier |-> 4,
             minQualityMultiplier |-> 1,
             WINDOW_WIDTH |-> WindowedWidth, WINDOW_HEIGHT |-> WindowedHeight,
             isMaximized |-> FALSE, pendingMenuItem |-> -1, running |-> TRUE,
             zoomHistory |-> << [centerX |-> -Fx(1, 2), centerY |-> 0,
                                 zoom |-> Fx(3, 2),
                                 maxIterations |-> DEFAULT_MAX_ITERATIONS] >>,
             events |-> 0]
    /\ shown = NoShown
    /\ pc = "idle"
    /\ result = "ok"
    /\ width = WindowedWidth /\ height = WindowedHeight
    /\ maxIterations = DEFAULT_MAX_ITERATIONS
    /\ colorMode = 1 /\ colorShift = DEFAULT_COLOR_SHIFT
    /\ imageData = Buf(ImageDataSize(width, height), 0)
    /\ iterations = Buf(IterationsSize(width, height), 0)
    /\ xArray = Buf(width, 0) /\ yArray = Buf(height, 0)
    /\ iterationsBuffer = Buf(IterationsBufferSize(width, height), Uninit)
    /\ rgbBuffer = Buf(RgbBufferSize(width, height), Uninit)
    /\ xArrayBuffer = Buf(width, Uninit) /\ yArrayBuffer = Buf(height, Uninit)
    /\ kernelArgs = NoArgs
    /\ centerX = 0 /\ centerY = 0 /\ zoom = 0
    /\ pending = {}
    /\ ucharConv \in UcharConvs
    /\ rgbWrites = Buf(RgbBufferSize(width, height), 0)
    /\ applied = {}
    /\ oob = FALSE
    /\ lastFrame = NoFrame
    /\ probe = NoProbe
    /\ device = "GPU with double"
    /\ acquired = AcquiredBefore(Len(ConstructOrder) + 1)

\* what an event handler leaves alone when it changes main's globals only
EngineKept ==
    UNCHANGED << pc, result, fields, hostVectors, deviceBuffers, kernelArgs, callArgs,
                 kernelRun, ucharConv, probe, device, acquired, oob, lastFrame >>

\* what a handler leaves alone when it calls setMaxIterations
EngineKeptButMaxIterations ==
    UNCHANGED << pc, result, width, height, colorMode, colorShift, hostVectors,
                 deviceBuffers, kernelArgs, callArgs, kernelRun, ucharConv, probe,
                 device, acquired, oob, lastFrame >>

\* an event is taken from the queue
Polling == mainPc = "poll" /\ pc = "idle" /\ ui.events < MaxEvents

\* SDL_MOUSEWHEEL
MouseWheel(up, mouseX, mouseY) ==
    /\ Polling
    /\ ui' = [WheelZoom(ui, up, mouseX, mouseY) EXCEPT !.events = @ + 1]
    /\ UNCHANGED << mainPc, shown >>
    /\ EngineKept

\* SDL_KEYDOWN of Q and E
KeyQuality(increase) ==
    /\ Polling
    /\ ui' = [ui EXCEPT !.highQualityMultiplier =
                            adjustQualityMultiplier(increase, @, ui.minQualityMultiplier),
                        !.events = @ + 1]
    /\ UNCHANGED << mainPc, shown >>
    /\ EngineKept

\* SDL_KEYDOWN of R
KeyReset ==
    /\ Polling
    /\ ui' = [ResetView(ui) EXCEPT !.events = @ + 1]
    /\ maxIterations' = EffectiveMaxIter(ResetView(ui))
    /\ UNCHANGED << mainPc, shown >>
    /\ EngineKeptButMaxIterations

\* a click on an item of the File menu: the action is left pending
ClickFileItem(menuItem) ==
    /\ Polling
    /\ ui' = [ui EXCEPT !.pendingMenuItem = menuItem, !.events = @ + 1]
    /\ UNCHANGED << mainPc, shown >>
    /\ EngineKept

\* a click on the item of the View menu
ClickViewItem ==
    /\ Polling
    /\ ui' = [ui EXCEPT !.isMaximized = ~@, !.pendingMenuItem = 4, !.events = @ + 1]
    /\ UNCHANGED << mainPc, shown >>
    /\ EngineKept

\* SDL_QUIT
Quit ==
    /\ Polling
    /\ ui' = [ui EXCEPT !.running = FALSE, !.events = @ + 1]
    /\ UNCHANGED << mainPc, shown >>
    /\ EngineKept

\* the pending menu action is run once the popup delay has elapsed
Due == mainPc = "poll" /\ pc = "idle"

\* no action is pending, or its delay has not elapsed
NoPopup ==
    /\ Due
    /\ mainPc' = "frame"
    /\ UNCHANGED << ui, shown >>
    /\ EngineKept

PopupReset ==
    /\ Due
    /\ ui.pendingMenuItem = 0
    /\ ui' = [ResetView(ui) EXCEPT !.pendingMenuItem = -1]
    /\ maxIterations' = EffectiveMaxIter(ResetView(ui))
    /\ mainPc' = "frame"
    /\ UNCHANGED shown
    /\ EngineKeptButMaxIterations

\* Save writes the view to a file and changes nothing of the program
PopupSave ==
    /\ Due
    /\ ui.pendingMenuItem = 1
    /\ ui' = [ui EXCEPT !.pendingMenuItem = -1]
    /\ mainPc' = "frame"
    /\ UNCHANGED shown
    /\ EngineKept

\* Load: the dialog is confirmed and the file read, or nothing changes
PopupLoad(ok, state) ==
    /\ Due
    /\ ui.pendingMenuItem = 2
    /\ mainPc' = "frame"
    /\ UNCHANGED shown
    /\ IF ok
       THEN /\ ui' = [LoadedView(ui, state) EXCEPT !.pendingMenuItem = -1]
            /\ colorMode' = state.colorMode
            /\ colorShift' = state.colorShift
            /\ maxIterations' = EffectiveMaxIter(LoadedView(ui, state))
            /\ UNCHANGED << pc, result, width, height, hostVectors, deviceBuffers,
                            kernelArgs, callArgs, kernelRun, ucharConv, probe, device,
                            acquired, oob, lastFrame >>
       ELSE /\ ui' = [ui EXCEPT !.pendingMenuItem = -1]
            /\ EngineKept

\* Quit from the menu
PopupQuit ==
    /\ Due
    /\ ui.pendingMenuItem = 3
    /\ ui' = [ui EXCEPT !.pendingMenuItem = -1, !.running = FALSE]
    /\ mainPc' = "frame"
    /\ UNCHANGED shown
    /\ EngineKept

PopupMaximize_KeepEngine(modeOk, displayMode, textureOk) ==
    /\ Due
    /\ ui.pendingMenuItem = 4
    /\ UNCHANGED shown
    /\ IF ui.isMaximized /\ ~modeOk
       THEN /\ ui' = [ui EXCEPT !.pendingMenuItem = -1]
            /\ mainPc' = "frame"
            /\ EngineKept
       ELSE LET w == IF ui.isMaximized THEN displayMode.w - margin ELSE WindowedWidth
                h == IF ui.isMaximized THEN displayMode.h - margin ELSE WindowedHeight
            IN  /\ ui' = [ui EXCEPT !.pendingMenuItem = -1,
                                    !.WINDOW_WIDTH = w, !.WINDOW_HEIGHT = h]
                /\ IF textureOk
                   THEN /\ mainPc' = "frame"
                        /\ EngineKept
                   ELSE /\ Destroyed(result)
                        /\ mainPc' = "exit"
                        /\ UNCHANGED << ucharConv, probe, device, oob >>

\* Maximize/Minimize: the window takes the size of the display less the
\* margin, or the windowed size, the texture is recreated and the engine
\* resized.  Without a texture main returns, which destroys the engine.
PopupMaximize(modeOk, displayMode, textureOk) ==
    /\ Due
    /\ ui.pendingMenuItem = 4
    /\ UNCHANGED shown
    /\ IF ui.isMaximized /\ ~modeOk
       THEN /\ ui' = [ui EXCEPT !.pendingMenuItem = -1]
            /\ mainPc' = "frame"
            /\ EngineKept
       ELSE LET w == IF ui.isMaximized THEN displayMode.w - margin ELSE WindowedWidth
                h == IF ui.isMaximized THEN displayMode.h - margin ELSE WindowedHeight
            IN  /\ ui' = [ui EXCEPT !.pendingMenuItem = -1,
                                    !.WINDOW_WIDTH = w, !.WINDOW_HEIGHT = h]
                /\ IF textureOk
                   THEN /\ Resized(w, h)
                        /\ mainPc' = "frame"
                        /\ UNCHANGED << pc, result, maxIterations, colorMode, colorShift,
                                        kernelArgs, callArgs, ucharConv, probe, device,
                                        acquired, oob >>
                   ELSE /\ Destroyed(result)
                        /\ mainPc' = "exit"
                        /\ UNCHANGED << ucharConv, probe, device, oob >>

\* the cells a kernel run and the read after it leave written.  What they
\* hold is followed where frames are computed step by step; here only that
\* they are written.
Written(buf, n, values) ==
    { [i \in DOMAIN buf |-> IF i < n THEN v ELSE buf[i]] : v \in values }

(***************************************************************************)
(* The frame of a pass: setMaxIterations, computeFrame, and the image      *)
(* handed to SDL_UpdateTexture unless it is empty.  An exception leaves    *)
(* main through its catch block.                                           *)
(***************************************************************************)
RenderFrame(outcome) ==
    /\ mainPc = "frame"
    /\ pc = "idle"
    /\ LET eff == EffectiveMaxIter(ui)
           fits == /\ width <= Size(xArrayBuffer)
                   /\ height <= Size(yArrayBuffer)
                   /\ ReadSize(width, height) <= Size(rgbBuffer)
       IN  IF outcome = "ok" /\ fits
           THEN /\ maxIterations' = eff
                /\ xArray' = FillX(xArray, 0, width, height, ui.centerX, ui.zoom)
                /\ yArray' = FillY(yArray, 0, height, ui.centerY, ui.zoom)
                /\ xArrayBuffer' \in Copies(xArrayBuffer, xArray', width, GarbageCoords)
                /\ yArrayBuffer' \in Copies(yArrayBuffer, yArray', height, GarbageCoords)
                /\ kernelArgs' = [width |-> width, height |-> height, max_iter |-> eff,
                                  color_mode |-> colorMode, color_shift |-> colorShift]
                /\ iterationsBuffer' \in Written(iterationsBuffer, GlobalSize(width, height), {eff})
                /\ rgbBuffer' \in Written(rgbBuffer, 3 * GlobalSize(width, height), GarbageBytes)
                /\ rgbWrites' = [i \in DOMAIN rgbBuffer |->
                                    IF i < 3 * GlobalSize(width, height) THEN 1 ELSE 0]
                /\ imageData' \in Copies(imageData, rgbBuffer', ReadSize(width, height),
                                         GarbageBytes)
                /\ oob' = (oob \/ width > Size(xArray) \/ height > Size(yArray)
                               \/ ReadSize(width, height) > Size(imageData))
                /\ lastFrame' = [valid |-> TRUE,
                                 params |-> << width, height, ui.centerX, ui.centerY,
                                               ui.zoom, eff, colorMode, colorShift >>,
                                 repeated |-> lastFrame.valid /\ lastFrame.params =
                                     << width, height, ui.centerX, ui.centerY,
                                        ui.zoom, eff, colorMode, colorShift >>]
                /\ shown' = IF Size(imageData) = 0
                            THEN shown
                            ELSE [valid |-> TRUE, len |-> Size(imageData),
                                  pitch |-> ui.WINDOW_WIDTH * 3,
                                  rows |-> ui.WINDOW_HEIGHT]
                /\ mainPc' = IF ui.running THEN "poll" ELSE "done"
                /\ UNCHANGED << pc, result, width, height, colorMode, colorShift,
                                iterations, callArgs, pending, applied, ucharConv,
                                probe, device, acquired, ui >>
           ELSE /\ Destroyed(IF outcome = "ok" THEN "Failed to read RGB buffer" ELSE outcome)
                /\ mainPc' = "exit"
                /\ UNCHANGED << ucharConv, probe, device, oob, ui, shown >>

\* the loop ends when running is false; main returns and the engine is destroyed
LeaveLoop ==
    /\ mainPc = "done"
    /\ Destroyed(result)
    /\ mainPc' = "exit"
    /\ UNCHANGED << ucharConv, probe, device, oob, ui, shown >>

ComputeErrors ==
    {"Failed to write X array", "Failed to write Y array",
     "Failed to set kernel argument", "Failed to execute kernel",
     "Failed to read RGB buffer"}

NextMain ==
    \/ \E up \in BOOLEAN, mouseX \in 0..(ui.WINDOW_WIDTH - 1),
          mouseY \in 0..(ui.WINDOW_HEIGHT - 1) : MouseWheel(up, mouseX, mouseY)
    \/ \E increase \in BOOLEAN : KeyQuality(increase)
    \/ KeyReset
    \/ \E menuItem \in 0..3 : ClickFileItem(menuItem)
    \/ ClickViewItem
    \/ Quit
    \/ NoPopup
    \/ PopupReset
    \/ PopupSave
    \/ \E ok \in BOOLEAN, state \in FileStates : PopupLoad(ok, state)
    \/ PopupQuit
    \/ \E modeOk \in BOOLEAN, displayMode \in DisplayModes, textureOk \in BOOLEAN :
          PopupMaximize(modeOk, displayMode, textureOk)
    \/ \E outcome \in {"ok"} \cup ComputeErrors : RenderFrame(outcome)
    \/ LeaveLoop

SpecMain == InitMain /\ [][NextMain]_vars

\* C15: every image handed to SDL_UpdateTexture holds at least one byte and
\* at least the WINDOW_WIDTH * 3 bytes of each of the WINDOW_HEIGHT rows the
\* texture reads from it; an image that does not is not handed over.
C15_ShownImageComplete ==
    shown.valid => (shown.len > 0 /\ shown.len >= shown.pitch * shown.rows)

\* a frame has been shown in a maximized window larger than the windowed one
C15_Witness ==
    /\ shown.valid
    /\ ui.isMaximized
    /\ shown.pitch * shown.rows > WindowedWidth * WindowedHeight * 3
    /\ shown.len = shown.pitch * shown.rows

\* C16: whenever main is about to call computeFrame, the iteration cap it
\* sets on the engine and the zoom it passes are positive.
C16_PositiveAtFrame ==
    mainPc = "frame" => (EffectiveMaxIter(ui) > 0 /\ ui.zoom > 0)

(***************************************************************************)
(* A palette function applied on its own to a normalized iteration count   *)
(* in [0, 1) and a colour shift in [0, 2 pi), both taken from a grid.      *)
(***************************************************************************)
NormSteps == 16
ShiftSteps == 12

NormGrid == { (k * ONE) \div NormSteps : k \in 0..(NormSteps - 1) }
ShiftGrid == { (k * 2 * M_PI) \div ShiftSteps : k \in 0..(ShiftSteps - 1) }

InitPalette ==
    /\ pc = "none"
    /\ result = "ok"
    /\ width = 0 /\ height = 0 /\ maxIterations = 0
    /\ colorMode = 0 /\ colorShift = 0
    /\ imageData = Buf(0, 0) /\ iterations = Buf(0, 0)
    /\ xArray = Buf(0, 0) /\ yArray = Buf(0, 0)
    /\ iterationsBuffer = Buf(0, 0) /\ rgbBuffer = Buf(0, 0)
    /\ xArrayBuffer = Buf(0, 0) /\ yArrayBuffer = Buf(0, 0)
    /\ kernelArgs = NoArgs
    /\ centerX = 0 /\ centerY = 0 /\ zoom = 0
    /\ pending = {}
    /\ ucharConv \in UcharConvs
    /\ rgbWrites = Buf(0, 0)
    /\ applied = {}
    /\ oob = FALSE
    /\ lastFrame = NoFrame
    /\ probe \in [kind : {"palette"}, color_mode : 0..5, norm_iter : NormGrid,
                  shift : ShiftGrid]
    /\ device = "GPU with double"
    /\ acquired = {}
    /\ mainPc = "none" /\ ui = NoUi /\ shown = NoShown

Colour ==
    /\ probe.kind = "palette"
    /\ probe' = [kind |-> "colour", color_mode |-> probe.color_mode,
                 norm_iter |-> probe.norm_iter, shift |-> probe.shift,
                 color |-> PaletteColor(probe.color_mode, probe.norm_iter, probe.shift)]
    /\ UNCHANGED engine

NextPalette == Colour

SpecPalette == InitPalette /\ [][NextPalette]_vars

\* C21: each of the six palette functions, given a normalized iteration
\* count in [0, 1) and a colour shift in [0, 2 pi), returns three channels
\* that each lie in [0, 1].
C21_PaletteChannelsInUnit ==
    probe.kind = "colour" =>
        \A c \in 1..3 : probe.color[c] >= 0 /\ probe.color[c] <= ONE

\* the Fire palette has been applied where its green channel is cut at 0
C21_Witness ==
    /\ probe.kind = "colour"
    /\ probe.color_mode = 1
    /\ probe.shift > 0
    /\ fmod(probe.norm_iter + probe.shift, ONE) < Fx(3, 10)
    /\ probe.color[1] > 0 /\ probe.color[2] = 0

(***************************************************************************)
(* One frame of 4 x 4 pixels about (-0.5, 0) at zoom 1 with 50 iterations, *)
(* for a palette and a colour shift: the count, the colour and the bytes   *)
(* of every pixel as computeFrame and the kernel compute them.             *)
(***************************************************************************)
Scene == [width |-> 4, height |-> 4, centerX |-> -Fx(1, 2), centerY |-> 0,
          zoom |-> ONE, maxIterations |-> 50]

\* the loop of the kernel run for as many passes as the cap allows
SceneIter(x, y) ==
    EscapeLoop(CoordX(x, Scene.width, Scene.height, Scene.centerX, Scene.zoom),
               CoordY(y, Scene.height, Scene.centerY, Scene.zoom),
               0, 0, 0, 0, 0, Scene.maxIterations, Scene.maxIterations)

ScenePixel(x, y, color_mode, color_shift, conv) ==
    LET iter == SceneIter(x, y)
    IN  [iter |-> iter,
         coloured |-> Escaped(iter, Scene.maxIterations),
         color |-> PaletteColor(color_mode,
                                apply_log_smooth(FxDiv(iter * ONE, Scene.maxIterations * ONE)),
                                color_shift),
         rgb |-> PixelRGB(iter, Scene.maxIterations, color_mode, color_shift, conv)]

InitScene ==
    /\ pc = "none"
    /\ result = "ok"
    /\ width = 0 /\ height = 0 /\ maxIterations = 0
    /\ colorMode = 0 /\ colorShift = 0
    /\ imageData = Buf(0, 0) /\ iterations = Buf(0, 0)
    /\ xArray = Buf(0, 0) /\ yArray = Buf(0, 0)
    /\ iterationsBuffer = Buf(0, 0) /\ rgbBuffer = Buf(0, 0)
    /\ xArrayBuffer = Buf(0, 0) /\ yArrayBuffer = Buf(0, 0)
    /\ kernelArgs = NoArgs
    /\ centerX = 0 /\ centerY = 0 /\ zoom = 0
    /\ pending = {}
    /\ ucharConv \in UcharConvs
    /\ rgbWrites = Buf(0, 0)
    /\ applied = {}
    /\ oob = FALSE
    /\ lastFrame = NoFrame
    /\ probe \in [kind : {"scene"}, color_mode : 0..6, color_shift : ShiftGrid]
    /\ device = "GPU with double"
    /\ acquired = {}
    /\ mainPc = "none" /\ ui = NoUi /\ shown = NoShown

SceneFrame ==
    /\ probe.kind = "scene"
    /\ probe' = [kind |-> "scene frame", color_mode |-> probe.color_mode,
                 color_shift |-> probe.color_shift,
                 pixels |-> [p \in (0..(Scene.width - 1)) \X (0..(Scene.height - 1)) |->
                                ScenePixel(p[1], p[2], probe.color_mode,
                                           probe.color_shift, ucharConv)]]
    /\ UNCHANGED engine

NextScene == SceneFrame

SpecScene == InitScene /\ [][NextScene]_vars

Corners ==
    { << 0, 0 >>, << Scene.width - 1, 0 >>, << 0, Scene.height - 1 >>,
      << Scene.width - 1, Scene.height - 1 >> }

\* C22: in the frame of the scene with the Fire palette and colour shift 0,
\* pixel (2, 2) has count 50 and the bytes (0, 0, 0), and some corner pixel
\* has left the loop within a few (at most 5) passes and has a red byte
\* other than 0 that comes from a red channel of Fire within [0, 1].
C22_SceneFire ==
    (probe.kind = "scene frame" /\ probe.color_mode = 1 /\ probe.color_shift = 0) =>
        /\ probe.pixels[<< 2, 2 >>].iter = 50
        /\ probe.pixels[<< 2, 2 >>].rgb = << 0, 0, 0 >>
        /\ \E p \in Corners :
              /\ probe.pixels[p].iter >= 1 /\ probe.pixels[p].iter <= 5
              /\ probe.pixels[p].rgb[1] # 0
              /\ probe.pixels[p].color[1] >= 0 /\ probe.pixels[p].color[1] <= ONE

(***************************************************************************)
(* The coordinate loops of computeFrame applied on their own to a          *)
(* resolution, a center and a zoom.                                        *)
(***************************************************************************)
MaxCoordSize == 4

CoordSizes == 1..MaxCoordSize
CoordCenters == { -Fx(1, 2), 0, Fx(1, 3) }
CoordZooms == { ONE \div 32, ONE \div 8, ONE, Fx(3, 2), 1000 * ONE }

InitCoord ==
    /\ pc = "none"
    /\ result = "ok"
    /\ width = 0 /\ height = 0 /\ maxIterations = 0
    /\ colorMode = 0 /\ colorShift = 0
    /\ imageData = Buf(0, 0) /\ iterations = Buf(0, 0)
    /\ xArray = Buf(0, 0) /\ yArray = Buf(0, 0)
    /\ iterationsBuffer = Buf(0, 0) /\ rgbBuffer = Buf(0, 0)
    /\ xArrayBuffer = Buf(0, 0) /\ yArrayBuffer = Buf(0, 0)
    /\ kernelArgs = NoArgs
    /\ centerX = 0 /\ centerY = 0 /\ zoom = 0
    /\ pending = {}
    /\ ucharConv \in UcharConvs
    /\ rgbWrites = Buf(0, 0)
    /\ applied = {}
    /\ oob = FALSE
    /\ lastFrame = NoFrame
    /\ probe \in [kind : {"view"}, width : CoordSizes, height : CoordSizes,
                  centerX : CoordCenters, centerY : CoordCenters, zoom : CoordZooms]
    /\ device = "GPU with double"
    /\ acquired = {}
    /\ mainPc = "none" /\ ui = NoUi /\ shown = NoShown

MapCoords ==
    /\ probe.kind = "view"
    /\ probe' = [kind |-> "coords", width |-> probe.width, height |-> probe.height,
                 centerX |-> probe.centerX, centerY |-> probe.centerY,
                 zoom |-> probe.zoom,
                 xArray |-> FillX(Buf(probe.width, 0), 0, probe.width, probe.height,
                                  probe.centerX, probe.zoom),
                 yArray |-> FillY(Buf(probe.height, 0), 0, probe.height,
                                  probe.centerY, probe.zoom)]
    /\ UNCHANGED engine

NextCoord == MapCoords

SpecCoord == InitCoord /\ [][NextCoord]_vars

Create_DefaultPalette(w, h, maxIter, mode, shift, outcome) ==
    /\ pc = "none"
    /\ probe' = [kind |-> "created", maxIterations |-> maxIter, colorMode |-> mode,
                 colorShift |-> shift]
    /\ LET n == FailingCall(device, outcome)
       IN  IF n > Len(ConstructOrder)
           THEN /\ pc' = "idle"
                /\ result' = "ok"
                /\ width' = w /\ height' = h /\ maxIterations' = maxIter
                /\ colorMode' = 0 /\ colorShift' = 0
                /\ imageData' = Buf(ImageDataSize(w, h), 0)
                /\ iterations' = Buf(IterationsSize(w, h), 0)
                /\ xArray' = Buf(w, 0)
                /\ yArray' = Buf(h, 0)
                /\ iterationsBuffer' = Buf(IterationsBufferSize(w, h), Uninit)
                /\ rgbBuffer' = Buf(RgbBufferSize(w, h), Uninit)
                /\ xArrayBuffer' = Buf(w, Uninit)
                /\ yArrayBuffer' = Buf(h, Uninit)
                /\ rgbWrites' = Buf(RgbBufferSize(w, h), 0)
                /\ acquired' = AcquiredBefore(n)
           ELSE /\ pc' = "failed"
                /\ result' = ConstructOrder[n].message
                /\ acquired' = AcquiredBefore(n)
                /\ UNCHANGED << fields, hostVectors, deviceBuffers, rgbWrites >>
    /\ UNCHANGED << kernelArgs, callArgs, pending, ucharConv, device, program,
                    applied, oob, lastFrame >>

Create(w, h, maxIter, mode, shift, outcome) ==
    /\ pc = "none"
    /\ probe' = [kind |-> "created", maxIterations |-> maxIter, colorMode |-> mode,
                 colorShift |-> shift]
    /\ LET n == FailingCall(device, outcome)
       IN  IF n > Len(ConstructOrder)
           THEN /\ pc' = "idle"
                /\ result' = "ok"
                /\ width' = w /\ height' = h /\ maxIterations' = maxIter
                /\ colorMode' = mode /\ colorShift' = shift
                /\ imageData' = Buf(ImageDataSize(w, h), 0)
                /\ iterations' = Buf(IterationsSize(w, h), 0)
                /\ xArray' = Buf(w, 0)
                /\ yArray' = Buf(h, 0)
                /\ iterationsBuffer' = Buf(IterationsBufferSize(w, h), Uninit)
                /\ rgbBuffer' = Buf(RgbBufferSize(w, h), Uninit)
                /\ xArrayBuffer' = Buf(w, Uninit)
                /\ yArrayBuffer' = Buf(h, Uninit)
                /\ rgbWrites' = Buf(RgbBufferSize(w, h), 0)
                /\ acquired' = AcquiredBefore(n)
           ELSE /\ pc' = "failed"
                /\ result' = ConstructOrder[n].message
                /\ acquired' = AcquiredBefore(n)
                /\ UNCHANGED << fields, hostVectors, deviceBuffers, rgbWrites >>
    /\ UNCHANGED << kernelArgs, callArgs, pending, ucharConv, device, program,
                    applied, oob, lastFrame >>

InitCreate ==
    /\ pc = "none"
    /\ result = "ok"
    /\ width = 0 /\ height = 0 /\ maxIterations = 0
    /\ colorMode = 0 /\ colorShift = 0
    /\ imageData = Buf(0, 0) /\ iterations = Buf(0, 0)
    /\ xArray = Buf(0, 0) /\ yArray = Buf(0, 0)
    /\ iterationsBuffer = Buf(0, 0) /\ rgbBuffer = Buf(0, 0)
    /\ xArrayBuffer = Buf(0, 0) /\ yArrayBuffer = Buf(0, 0)
    /\ kernelArgs = NoArgs
    /\ centerX = 0 /\ centerY = 0 /\ zoom = 0
    /\ pending = {}
    /\ ucharConv \in UcharConvs
    /\ rgbWrites = Buf(0, 0)
    /\ applied = {}
    /\ oob = FALSE
    /\ lastFrame = NoFrame
    /\ probe = NoProbe
    /\ device = "GPU with double"
    /\ acquired = {}
    /\ mainPc = "none" /\ ui = NoUi /\ shown = NoShown

NextCreate ==
    \/ \E w \in Widths, h \in Heights, maxIter \in IterValues, mode \in ModeValues,
          shift \in ShiftValues, outcome \in {"ok"} \cup ConstructErrors :
          Create(w, h, maxIter, mode, shift, outcome)
    \/ \E cx \in CenterXValues, cy \in CenterYValues, zm \in ZoomValues : CF_Coords(cx, cy, zm)
    \/ \E ok \in BOOLEAN : CF_WriteX(ok)
    \/ \E ok \in BOOLEAN : CF_WriteY(ok)
    \/ \E ok \in BOOLEAN : CF_SetArgs(ok)
    \/ \E ok \in BOOLEAN : CF_Enqueue(ok)
    \/ \E gid \in pending : WorkItem(gid)
    \/ \E ok \in BOOLEAN : CF_Read(ok)

SpecCreate == InitCreate /\ [][NextCreate]_vars

\* C24: the first computeFrame of an engine created with a maxIterations, a
\* palette index and a colour shift, no setter having been called, passes
\* these three to the kernel and returns the image they give.
C24_FirstFrameAsCreated ==
    [][ (pc = "read" /\ pc' = "idle" /\ probe.kind = "created" /\ ~lastFrame.valid) =>
           /\ kernelArgs.max_iter = probe.maxIterations
           /\ kernelArgs.color_mode = probe.colorMode
           /\ kernelArgs.color_shift = probe.colorShift
           /\ imageData' = FrameImage(width, height, centerX, centerY, zoom,
                                      probe.maxIterations, probe.colorMode,
                                      probe.colorShift, ucharConv) ]_vars

\* the first frame of an engine created with the Fire palette and the shift
\* 1.8 has been returned, and it is not black
C24_Witness ==
    /\ pc = "idle" /\ lastFrame.valid /\ ~lastFrame.repeated
    /\ probe.kind = "created" /\ probe.colorMode = 1 /\ probe.colorShift = Fx(18, 10)
    /\ lastFrame.params[7] = 1 /\ lastFrame.params[8] = Fx(18, 10)
    /\ \E i \in DOMAIN imageData : imageData[i] # 0

\* ---------------------------------------------------------------------------
\* main.cpp: the mouse, the keys and the menu bar
\* ---------------------------------------------------------------------------

MENU_ACTION_DELAY == 100
DIALOG_CLOSE_DELAY == 100
POPUP_DELAY == 100
MENU_HEIGHT == 20
MENU_ITEM_HEIGHT == 20
MENU_ITEM_RENDER == 5
MENU_ITEM_ABOUT == 6

\* SDL_GetTicks() - t of a time stamp t is followed up to one millisecond past
\* the delays, all three of 100 ms: every comparison of the source is with a delay
PastDelay == MENU_ACTION_DELAY + 1

\* the time that passes between two steps of the program
Lapses == { MENU_ACTION_DELAY, PastDelay }

\* the rectangle zooms of one run
MaxZooms == 3

\* where the pointer is put: four points of the picture, two of them less than
\* five pixels apart, and one point of the menu bar
Pointers ==
    { << 300, 200 >>, << 303, 203 >>, << 420, 320 >>, << 500, 400 >>, << 50, 10 >> }

\* the globals of main.cpp when the loop is entered, in the 800 x 600 window
StartUi ==
    [centerX |-> -Fx(1, 2), centerY |-> 0, zoom |-> Fx(3, 2),
     colorMode |-> 1, colorShift |-> DEFAULT_COLOR_SHIFT,
     maxIterations |-> DEFAULT_MAX_ITERATIONS,
     highQualityMode |-> TRUE, highQualityMultiplier |-> 4,
     minQualityMultiplier |-> 1,
     WINDOW_WIDTH |-> 800, WINDOW_HEIGHT |-> 600,
     isMaximized |-> FALSE, pendingMenuItem |-> -1, running |-> TRUE,
     zoomHistory |-> << [centerX |-> -Fx(1, 2), centerY |-> 0, zoom |-> Fx(3, 2),
                         maxIterations |-> DEFAULT_MAX_ITERATIONS] >>,
     events |-> 0,
     smoothZoomMode |-> TRUE, drawing |-> FALSE, ignoreMouseActions |-> FALSE,
     showMenu |-> TRUE, isDragging |-> FALSE,
     fileMenuOpen |-> FALSE, viewMenuOpen |-> FALSE, helpMenuOpen |-> FALSE,
     renderMenuOpen |-> FALSE,
     startX |-> 0, startY |-> 0, currentX |-> 0, currentY |-> 0,
     lastMouseX |-> 0, lastMouseY |-> 0,
     buttons |-> {}, mouseX |-> 0, mouseY |-> 0,
     menuActionAge |-> 0, dialogCloseAge |-> 0, popupDelayAge |-> 0,
     lastZoomAge |-> 0]

\* SDL_GetTicks() - menuActionTime > MENU_ACTION_DELAY, and the like
MenuActionPast(u) == u.menuActionAge > MENU_ACTION_DELAY
DialogClosePast(u) == u.dialogCloseAge > DIALOG_CLOSE_DELAY
PopupDelayPast(u) == u.popupDelayAge > POPUP_DELAY

\* the globals after some milliseconds have gone by
Later(u, ms) ==
    [u EXCEPT !.menuActionAge = min(@ + ms, PastDelay),
              !.dialogCloseAge = min(@ + ms, PastDelay),
              !.popupDelayAge = min(@ + ms, PastDelay),
              !.lastZoomAge = min(@ + ms, PastDelay)]

Abs(a) == IF a >= 0 THEN a ELSE -a

\* the view after the selection rectangle has been released
zoomToSelection(u, startX, startY, currentX, currentY) ==
    LET centerScreenX == IntDiv(startX + currentX, 2)
        centerScreenY == IntDiv(startY + currentY, 2)
        size == max(Abs(currentX - startX), Abs(currentY - startY))
        offX == centerScreenX * ONE - FxDiv(u.WINDOW_WIDTH * ONE, 2 * ONE)
        offY == centerScreenY * ONE - FxDiv(u.WINDOW_HEIGHT * ONE, 2 * ONE)
        mouseXPlane == u.centerX + FxDiv(FxMul(offX, FxDiv(4 * ONE, u.zoom)),
                                         u.WINDOW_WIDTH * ONE)
        mouseYPlane == u.centerY - FxDiv(FxMul(offY, FxDiv(4 * ONE, u.zoom)),
                                         u.WINDOW_HEIGHT * ONE)
        zoomFactor == FxDiv(u.WINDOW_WIDTH * ONE, size * ONE)
        newZoom == FxMul(u.zoom, zoomFactor)
    IN  [u EXCEPT !.zoomHistory = saveViewToHistory(@, u.centerX, u.centerY, u.zoom,
                                                    u.maxIterations),
                  !.centerX = mouseXPlane, !.centerY = mouseYPlane,
                  !.zoom = newZoom]

\* the view after zoomOut: the last entry of the history is dropped and the
\* entry before it is shown
zoomOut(u) ==
    IF Len(u.zoomHistory) > 1
    THEN LET popped == SubSeq(u.zoomHistory, 1, Len(u.zoomHistory) - 1)
             previousView == popped[Len(popped)]
         IN  [u EXCEPT !.zoomHistory = popped,
                       !.centerX = previousView.centerX,
                       !.centerY = previousView.centerY,
                       !.zoom = previousView.zoom,
                       !.maxIterations = previousView.maxIterations]
    ELSE u

\* SDL_MOUSEBUTTONDOWN of the left button: the menu bar, the open menu, the picture
LeftButtonDown(u, x, y) ==
    IF u.showMenu /\ y < MENU_HEIGHT
    THEN IF x >= 130 /\ x <= 170
         THEN [u EXCEPT !.fileMenuOpen = ~@, !.viewMenuOpen = FALSE,
                        !.helpMenuOpen = FALSE, !.ignoreMouseActions = TRUE,
                        !.menuActionAge = 0]
         ELSE IF x >= 180 /\ x <= 230
         THEN [u EXCEPT !.viewMenuOpen = ~@, !.fileMenuOpen = FALSE,
                        !.helpMenuOpen = FALSE, !.ignoreMouseActions = TRUE,
                        !.menuActionAge = 0]
         ELSE IF x >= 310 /\ x <= 360
         THEN [u EXCEPT !.helpMenuOpen = ~@, !.fileMenuOpen = FALSE,
                        !.viewMenuOpen = FALSE, !.renderMenuOpen = FALSE,
                        !.ignoreMouseActions = TRUE, !.menuActionAge = 0]
         ELSE IF x >= 240 /\ x <= 300
         THEN [u EXCEPT !.renderMenuOpen = ~@, !.fileMenuOpen = FALSE,
                        !.viewMenuOpen = FALSE, !.helpMenuOpen = FALSE,
                        !.ignoreMouseActions = TRUE, !.menuActionAge = 0]
         ELSE u
    ELSE IF u.fileMenuOpen
    THEN IF y < MENU_HEIGHT \/ x < 130 \/ x > 230
            \/ y > MENU_HEIGHT + MENU_ITEM_HEIGHT * 4
         THEN [u EXCEPT !.fileMenuOpen = FALSE, !.dialogCloseAge = 0]
         ELSE IF /\ y >= MENU_HEIGHT /\ y < MENU_HEIGHT + MENU_ITEM_HEIGHT * 4
                 /\ x >= 130 /\ x <= 230
                 /\ IntDiv(y - MENU_HEIGHT, MENU_ITEM_HEIGHT) >= 0
                 /\ IntDiv(y - MENU_HEIGHT, MENU_ITEM_HEIGHT) < 4
         THEN [u EXCEPT !.pendingMenuItem = IntDiv(y - MENU_HEIGHT, MENU_ITEM_HEIGHT),
                        !.fileMenuOpen = FALSE, !.ignoreMouseActions = TRUE,
                        !.menuActionAge = 0, !.popupDelayAge = 0]
         ELSE u
    ELSE IF u.viewMenuOpen
    THEN IF y < MENU_HEIGHT \/ x < 180 \/ x > 280 \/ y > MENU_HEIGHT + MENU_ITEM_HEIGHT
         THEN [u EXCEPT !.viewMenuOpen = FALSE, !.dialogCloseAge = 0]
         ELSE IF /\ y >= MENU_HEIGHT /\ y < MENU_HEIGHT + MENU_ITEM_HEIGHT
                 /\ x >= 180 /\ x <= 280
         THEN [u EXCEPT !.isMaximized = ~@, !.viewMenuOpen = FALSE,
                        !.ignoreMouseActions = TRUE, !.menuActionAge = 0,
                        !.popupDelayAge = 0, !.pendingMenuItem = 4]
         ELSE u
    ELSE IF u.helpMenuOpen
    THEN IF y < MENU_HEIGHT \/ x < 310 \/ x > 410 \/ y > MENU_HEIGHT + MENU_ITEM_HEIGHT
         THEN [u EXCEPT !.helpMenuOpen = FALSE, !.dialogCloseAge = 0]
         ELSE IF /\ y >= MENU_HEIGHT /\ y < MENU_HEIGHT + MENU_ITEM_HEIGHT
                 /\ x >= 310 /\ x <= 410
         THEN [u EXCEPT !.pendingMenuItem = MENU_ITEM_ABOUT, !.helpMenuOpen = FALSE,
                        !.ignoreMouseActions = TRUE, !.menuActionAge = 0,
                        !.popupDelayAge = 0]
         ELSE u
    ELSE IF u.renderMenuOpen
    THEN IF y < MENU_HEIGHT \/ x < 240 \/ x > 340 \/ y > MENU_HEIGHT + MENU_ITEM_HEIGHT
         THEN [u EXCEPT !.renderMenuOpen = FALSE, !.dialogCloseAge = 0]
         ELSE IF /\ y >= MENU_HEIGHT /\ y < MENU_HEIGHT + MENU_ITEM_HEIGHT
                 /\ x >= 240 /\ x <= 340
         THEN [u EXCEPT !.pendingMenuItem = MENU_ITEM_RENDER, !.renderMenuOpen = FALSE,
                        !.ignoreMouseActions = TRUE, !.menuActionAge = 0,
                        !.popupDelayAge = 0]
         ELSE u
    ELSE IF ~u.ignoreMouseActions /\ MenuActionPast(u) /\ DialogClosePast(u)
    THEN IF u.smoothZoomMode
         THEN [u EXCEPT !.currentX = x, !.currentY = y]
         ELSE [u EXCEPT !.drawing = TRUE, !.startX = x, !.startY = y,
                        !.currentX = x, !.currentY = y]
    ELSE u

\* the right button zooms out in rectangle mode
RightClickZoomsOut(u, y) ==
    /\ ~u.ignoreMouseActions /\ (~u.showMenu \/ y >= MENU_HEIGHT)
    /\ MenuActionPast(u) /\ DialogClosePast(u)
    /\ ~u.smoothZoomMode

\* SDL_MOUSEBUTTONDOWN of the right button
RightButtonDown(u, x, y) == IF RightClickZoomsOut(u, y) THEN zoomOut(u) ELSE u

\* the release of the left button completes a selection of more than five pixels
ReleaseZooms(u, y) ==
    /\ ~u.ignoreMouseActions /\ (~u.showMenu \/ y >= MENU_HEIGHT)
    /\ MenuActionPast(u)
    /\ u.drawing
    /\ Abs(u.currentX - u.startX) > 5 /\ Abs(u.currentY - u.startY) > 5

\* SDL_MOUSEBUTTONUP of the left button
LeftButtonUp(u, x, y) ==
    LET released ==
            IF ~u.ignoreMouseActions /\ (~u.showMenu \/ y >= MENU_HEIGHT)
               /\ MenuActionPast(u) /\ u.drawing
            THEN IF ReleaseZooms(u, y)
                 THEN [zoomToSelection(u, u.startX, u.startY, u.currentX, u.currentY)
                          EXCEPT !.drawing = FALSE]
                 ELSE [u EXCEPT !.drawing = FALSE]
            ELSE u
    IN  [released EXCEPT !.ignoreMouseActions = FALSE]

\* SDL_MOUSEMOTION
MouseMotion(u, x, y) ==
    IF ~u.ignoreMouseActions /\ (~u.showMenu \/ y >= MENU_HEIGHT) /\ MenuActionPast(u)
    THEN IF u.isDragging
         THEN LET scale == FxDiv(4 * ONE, u.zoom)
              IN  [u EXCEPT !.centerX = @ - FxDiv(FxMul((x - u.lastMouseX) * ONE, scale),
                                                  u.WINDOW_WIDTH * ONE),
                            !.centerY = @ - FxDiv(FxMul((y - u.lastMouseY) * ONE, scale),
                                                  u.WINDOW_HEIGHT * ONE),
                            !.lastMouseX = x, !.lastMouseY = y]
         ELSE IF u.drawing
         THEN [u EXCEPT !.currentX = x, !.currentY = y]
         ELSE u
    ELSE u

\* ---------------------------------------------------------------------------
\* Rectangle selection: the zooms and the way back.  probe.views holds the views
\* V0, ..., Vk shown by the rectangle zooms made so far and not yet left again.
\* ---------------------------------------------------------------------------

ViewOf(u) ==
    [centerX |-> u.centerX, centerY |-> u.centerY, zoom |-> u.zoom]

\* what a handler that calls setMaxIterations leaves alone in the engine
EngineUntouchedButMaxIterations ==
    UNCHANGED << pc, result, width, height, colorMode, colorShift, hostVectors,
                 deviceBuffers, kernelArgs, callArgs, kernelRun, ucharConv,
                 device, acquired, oob, lastFrame >>

\* the engine as main has constructed it, at the scale of the resolutions followed
EngineAtStart ==
    /\ pc = "idle"
    /\ result = "ok"
    /\ width = WindowedWidth /\ height = WindowedHeight
    /\ maxIterations = DEFAULT_MAX_ITERATIONS
    /\ colorMode = 1 /\ colorShift = DEFAULT_COLOR_SHIFT
    /\ imageData = Buf(ImageDataSize(width, height), 0)
    /\ iterations = Buf(IterationsSize(width, height), 0)
    /\ xArray = Buf(width, 0) /\ yArray = Buf(height, 0)
    /\ iterationsBuffer = Buf(IterationsBufferSize(width, height), Uninit)
    /\ rgbBuffer = Buf(RgbBufferSize(width, height), Uninit)
    /\ xArrayBuffer = Buf(width, Uninit) /\ yArrayBuffer = Buf(height, Uninit)
    /\ kernelArgs = NoArgs
    /\ centerX = 0 /\ centerY = 0 /\ zoom = 0
    /\ pending = {}
    /\ ucharConv \in UcharConvs
    /\ rgbWrites = Buf(RgbBufferSize(width, height), 0)
    /\ applied = {}
    /\ oob = FALSE
    /\ lastFrame = NoFrame
    /\ device = "GPU with double"
    /\ acquired = AcquiredBefore(Len(ConstructOrder) + 1)

\* the M key has switched to rectangle selection
InitZoom ==
    /\ mainPc = "poll"
    /\ ui = [StartUi EXCEPT !.smoothZoomMode = FALSE]
    /\ shown = NoShown
    /\ EngineAtStart
    /\ probe = [kind |-> "views", views |-> << ViewOf(StartUi) >>]

\* time passes
ZoomElapse(ms) ==
    /\ mainPc = "poll"
    /\ ui' = Later(ui, ms)
    /\ UNCHANGED << mainPc, shown, probe, maxIterations >>
    /\ EngineUntouchedButMaxIterations

ZoomLeftDown(x, y) ==
    /\ mainPc = "poll"
    /\ ui' = LeftButtonDown(ui, x, y)
    /\ UNCHANGED << mainPc, shown, probe, maxIterations >>
    /\ EngineUntouchedButMaxIterations

ZoomMotion(x, y) ==
    /\ mainPc = "poll"
    /\ ui' = MouseMotion(ui, x, y)
    /\ UNCHANGED << mainPc, shown, probe, maxIterations >>
    /\ EngineUntouchedButMaxIterations

\* the release of the left button: a rectangle zoom shows one more view
ZoomLeftUp(x, y) ==
    /\ mainPc = "poll"
    /\ ReleaseZooms(ui, y) => Len(ui.zoomHistory) <= MaxZooms
    /\ ui' = LeftButtonUp(ui, x, y)
    /\ probe' = IF ReleaseZooms(ui, y)
                THEN [probe EXCEPT !.views = Append(@, ViewOf(ui'))]
                ELSE probe
    /\ UNCHANGED << mainPc, shown, maxIterations >>
    /\ EngineUntouchedButMaxIterations

\* the right button: a zoom-out leaves the last view
ZoomRightDown(x, y) ==
    /\ mainPc = "poll"
    /\ ui' = RightButtonDown(ui, x, y)
    /\ maxIterations' = IF RightClickZoomsOut(ui, y) /\ Len(ui.zoomHistory) > 1
                        THEN EffectiveMaxIter(ui')
                        ELSE maxIterations
    /\ probe' = IF RightClickZoomsOut(ui, y) /\ Len(probe.views) > 1
                THEN [probe EXCEPT !.views = SubSeq(@, 1, Len(@) - 1)]
                ELSE probe
    /\ UNCHANGED << mainPc, shown >>
    /\ EngineUntouchedButMaxIterations

NextZoom ==
    \/ \E ms \in Lapses : ZoomElapse(ms)
    \/ \E p \in Pointers : ZoomLeftDown(p[1], p[2])
    \/ \E p \in Pointers : ZoomMotion(p[1], p[2])
    \/ \E p \in Pointers : ZoomLeftUp(p[1], p[2])
    \/ \E p \in Pointers : ZoomRightDown(p[1], p[2])

SpecZoom == InitZoom /\ [][NextZoom]_vars

\* C25: in rectangle selection, after the zooms V0 -> V1 -> ... -> Vk with k >= 1,
\* a zoom-out shows V(k-1), and each further zoom-out shows the view before:
\* whenever a right click leaves the last of the views, the view now shown is
\* the one that was shown before the zoom that is undone
C25_ZoomOutShowsPrevious ==
    [][ (Len(probe.views) > 1 /\ probe'.views = SubSeq(probe.views, 1, Len(probe.views) - 1))
        => ViewOf(ui') = probe.views[Len(probe.views) - 1] ]_vars

\* ---------------------------------------------------------------------------
\* Reset of the view
\* ---------------------------------------------------------------------------

\* C26: a reset (the R key or File > Reset) gives centerX, centerY, zoom and
\* maxIterations the values they had when the program started, and the engine's
\* maxIterations the effective count derived from them
C26_ResetRestoresStart ==
    [][ (KeyReset \/ PopupReset)
        => /\ ui'.centerX = -Fx(1, 2) /\ ui'.centerY = 0
           /\ ui'.zoom = Fx(3, 2)
           /\ ui'.maxIterations = DEFAULT_MAX_ITERATIONS
           /\ maxIterations' = EffectiveMaxIter(ui') ]_vars

\* ---------------------------------------------------------------------------
\* The colour shift and the keys
\* ---------------------------------------------------------------------------

MIN_COLOR_SHIFT == 0
MAX_COLOR_SHIFT == Fx(628, 100)

\* the significand of a double, 53 bits in the build, at the scale of the
\* numbers followed here: a number of more bits is rounded to the nearest one
\* of so many bits, ties to even
MantissaBits == 16

Exponent(a) == CHOOSE e \in 0..30 : 2^e <= a /\ (e = 30 \/ a < 2^(e + 1))

RoundDouble(v) ==
    LET a == Abs(v)
    IN  IF a < 2^MantissaBits
        THEN v
        ELSE LET q == 2^(Exponent(a) - MantissaBits + 1)
                 low == (a \div q) * q
                 rest == a - low
                 near == IF 2 * rest > q \/ (2 * rest = q /\ (a \div q) % 2 = 1)
                         THEN low + q ELSE low
             IN  IF v >= 0 THEN near ELSE -near

\* while (shift < MIN_COLOR_SHIFT) shift += MAX_COLOR_SHIFT: a turn that leaves
\* shift as it was is followed by the same turn, without end
RECURSIVE RaiseShift(_)
RaiseShift(shift) ==
    IF shift >= MIN_COLOR_SHIFT
    THEN [halts |-> TRUE, value |-> shift]
    ELSE LET next == RoundDouble(shift + MAX_COLOR_SHIFT)
         IN  IF next = shift THEN [halts |-> FALSE, value |-> shift]
                             ELSE RaiseShift(next)

\* while (shift >= MAX_COLOR_SHIFT) shift -= MAX_COLOR_SHIFT
RECURSIVE LowerShift(_)
LowerShift(shift) ==
    IF shift < MAX_COLOR_SHIFT
    THEN [halts |-> TRUE, value |-> shift]
    ELSE LET next == RoundDouble(shift - MAX_COLOR_SHIFT)
         IN  IF next = shift THEN [halts |-> FALSE, value |-> shift]
                             ELSE LowerShift(next)

normalizeColorShift(shift) ==
    LET raised == RaiseShift(shift)
    IN  IF raised.halts THEN LowerShift(raised.value) ELSE raised

\* the remainder of C++: it has the sign of the dividend
Rem(a, b) == a - b * IntDiv(a, b)

MenuOpen(u) == u.fileMenuOpen \/ u.viewMenuOpen \/ u.renderMenuOpen \/ u.helpMenuOpen

\* whether the handler of a key returns
KeyReturns(u, key) ==
    \/ MenuOpen(u)
    \/ key \notin { "z", "x" }
    \/ key = "z" /\ normalizeColorShift(u.colorShift - Fx(1, 10)).halts
    \/ key = "x" /\ normalizeColorShift(u.colorShift + Fx(1, 10)).halts

\* SDL_KEYDOWN: main's globals after the key
KeyDown(u, key) ==
    IF MenuOpen(u)
    THEN u
    ELSE CASE key = "c" -> [u EXCEPT !.colorMode = Rem(@ + 1, 6)]
           [] key = "z" ->
                [u EXCEPT !.colorShift = normalizeColorShift(@ - Fx(1, 10)).value]
           [] key = "x" ->
                [u EXCEPT !.colorShift = normalizeColorShift(@ + Fx(1, 10)).value]
           [] key = "m" -> [u EXCEPT !.smoothZoomMode = ~@]
           [] key = "q" ->
                [u EXCEPT !.highQualityMultiplier =
                              adjustQualityMultiplier(FALSE, @, u.minQualityMultiplier)]
           [] key = "e" ->
                [u EXCEPT !.highQualityMultiplier =
                              adjustQualityMultiplier(TRUE, @, u.minQualityMultiplier)]
           [] key = "r" -> ResetView(u)
           [] OTHER -> u

\* the doubles given to normalizeColorShift: around the range, at its ends, far
\* from it, and so large that MAX_COLOR_SHIFT is less than half the distance to
\* the next double
ShiftInputs ==
    { k * Fx(3, 2) : k \in -9..9 }
        \cup { -1, MAX_COLOR_SHIFT - 1, MAX_COLOR_SHIFT, -MAX_COLOR_SHIFT,
               2 * MAX_COLOR_SHIFT, 100 * ONE, -100 * ONE, 3 * 2^29, -(3 * 2^29) }

InitShift ==
    /\ mainPc = "poll"
    /\ ui = StartUi
    /\ shown = NoShown
    /\ EngineAtStart
    /\ probe \in [kind : {"shift"}, shift : ShiftInputs]

\* the function on its own
Normalize ==
    /\ probe.kind = "shift"
    /\ probe' = [kind |-> "normalized", shift |-> probe.shift,
                 halts |-> normalizeColorShift(probe.shift).halts,
                 value |-> normalizeColorShift(probe.shift).value]
    /\ UNCHANGED engine

\* the Z and X keys: the shift goes down or up by 0.1 and is given to the engine
ShiftKey(key) ==
    /\ mainPc = "poll"
    /\ pc = "idle"
    /\ IF KeyReturns(ui, key)
       THEN /\ ui' = KeyDown(ui, key)
            /\ colorShift' = IF MenuOpen(ui) THEN colorShift ELSE ui'.colorShift
            /\ UNCHANGED mainPc
       ELSE /\ mainPc' = "hung"
            /\ UNCHANGED << ui, colorShift >>
    /\ UNCHANGED << shown, probe, pc, result, width, height, maxIterations, colorMode,
                    hostVectors, deviceBuffers, kernelArgs, callArgs, kernelRun,
                    ucharConv, device, acquired, oob, lastFrame >>

NextShift ==
    \/ Normalize
    \/ \E key \in { "z", "x" } : ShiftKey(key)

SpecShift == InitShift /\ [][NextShift]_vars

\* C27: normalizeColorShift returns for every finite input, with a value in
\* [0, 6.28); and from the default shift, whatever Z and X keys are pressed,
\* colorShift stays in [MIN_COLOR_SHIFT, MAX_COLOR_SHIFT) and the engine's
\* colorShift is equal to it
C27_ShiftNormalized ==
    /\ probe.kind = "normalized"
           => /\ probe.halts
              /\ probe.value >= MIN_COLOR_SHIFT /\ probe.value < MAX_COLOR_SHIFT
    /\ mainPc # "hung"
    /\ ui.colorShift >= MIN_COLOR_SHIFT /\ ui.colorShift < MAX_COLOR_SHIFT
    /\ colorShift = ui.colorShift

\* ---------------------------------------------------------------------------
\* main.cpp: one pass of the loop after the events: the pending menu action,
\* the continuous zoom, the frame.  No direction key is pressed in the runs
\* followed, so panView is not reached.
\* ---------------------------------------------------------------------------

ZOOM_INTERVAL == 10
smoothZoomFactor == Fx(101, 100)
fastSmoothZoomFactor == Fx(104, 100)

\* what SDL_GetMouseState and the events report: the buttons held and the pointer
Pressed(u, button, x, y) ==
    [u EXCEPT !.buttons = @ \cup {button}, !.mouseX = x, !.mouseY = y]

Released(u, button, x, y) ==
    [u EXCEPT !.buttons = @ \ {button}, !.mouseX = x, !.mouseY = y]

\* the view after one step of smoothZoomToCursor
smoothZoomToCursor(u, out, mouseX, mouseY, shiftPressed) ==
    IF u.lastZoomAge < ZOOM_INTERVAL
    THEN u
    ELSE LET offX == mouseX * ONE - (u.WINDOW_WIDTH * ONE) \div 2
             offY == mouseY * ONE - (u.WINDOW_HEIGHT * ONE) \div 2
             mouseXPlane == u.centerX + FxDiv(FxMul(offX, FxDiv(4 * ONE, u.zoom)),
                                              u.WINDOW_WIDTH * ONE)
             mouseYPlane == u.centerY + FxDiv(FxMul(offY, FxDiv(4 * ONE, u.zoom)),
                                              u.WINDOW_HEIGHT * ONE)
             currentZoomFactor == IF shiftPressed THEN fastSmoothZoomFactor
                                                  ELSE smoothZoomFactor
             newZoom == IF out THEN FxDiv(u.zoom, currentZoomFactor)
                               ELSE FxMul(u.zoom, currentZoomFactor)
         IN  [u EXCEPT !.zoom = newZoom,
                       !.centerX = mouseXPlane
                                     - FxDiv(FxMul(offX, FxDiv(4 * ONE, newZoom)),
                                             u.WINDOW_WIDTH * ONE),
                       !.centerY = mouseYPlane
                                     - FxDiv(FxMul(offY, FxDiv(4 * ONE, newZoom)),
                                             u.WINDOW_HEIGHT * ONE),
                       !.lastZoomAge = 0]

\* the continuous-zoom block lets a step through
ZoomStepAllowed(u) ==
    /\ u.smoothZoomMode
    /\ ~u.showMenu \/ u.mouseY < 0 \/ u.mouseY >= MENU_HEIGHT
    /\ MenuActionPast(u) /\ DialogClosePast(u)
    /\ u.buttons # {}

\* the continuous-zoom block of the loop
ContinuousZoom(u, shiftPressed) ==
    IF ~u.smoothZoomMode
    THEN u
    ELSE LET v == [u EXCEPT !.currentX = u.mouseX, !.currentY = u.mouseY]
         IN  IF ZoomStepAllowed(u)
             THEN smoothZoomToCursor(v, "left" \notin u.buttons, v.currentX, v.currentY,
                                     shiftPressed)
             ELSE v

\* a menu action is pending and its delay has gone by
PopupDue(u) == u.pendingMenuItem # -1 /\ PopupDelayPast(u)

\* how a dialog is left: confirmed, cancelled, or by SDL_QUIT, which alone does
\* not set dialogCloseTime
Dialogs == { "ok", "cancel", "quit" }

DialogClosed(u, dialog) ==
    IF dialog = "quit" THEN u ELSE [u EXCEPT !.dialogCloseAge = 0]

\* the zoom steps of one run
MaxSmoothSteps == 1

\* a zoom step is applied in this pass
ZoomSteps(u) == ZoomStepAllowed(u) /\ u.lastZoomAge >= ZOOM_INTERVAL

\* main's globals after the continuous-zoom block, the steps counted in events
AfterZoom(u, shiftPressed) ==
    IF ZoomSteps(u)
    THEN [ContinuousZoom(u, shiftPressed) EXCEPT !.events = @ + 1]
    ELSE ContinuousZoom(u, shiftPressed)

StepsLeft(u) == ZoomSteps(u) => u.events < MaxSmoothSteps

\* a pass with no menu action to run
PassIdle(shiftPressed) ==
    /\ Due
    /\ ~PopupDue(ui)
    /\ StepsLeft(ui)
    /\ ui' = AfterZoom(ui, shiftPressed)
    /\ mainPc' = "frame"
    /\ UNCHANGED shown
    /\ EngineKept

\* case 0: Reset
PassReset(shiftPressed) ==
    /\ Due
    /\ PopupDue(ui) /\ ui.pendingMenuItem = 0
    /\ LET done == ResetView([ui EXCEPT !.pendingMenuItem = -1])
       IN  /\ StepsLeft(done)
           /\ ui' = AfterZoom(done, shiftPressed)
           /\ maxIterations' = EffectiveMaxIter(done)
    /\ mainPc' = "frame"
    /\ UNCHANGED shown
    /\ EngineKeptButMaxIterations

\* cases 1, 2, MENU_ITEM_RENDER and MENU_ITEM_ABOUT: a dialog is shown; Save and
\* Render write files and change nothing of the program, and a Load that is
\* not confirmed or does not read its file changes nothing either
PassDialog(dialog, shiftPressed) ==
    /\ Due
    /\ PopupDue(ui) /\ ui.pendingMenuItem \in { 1, 2, MENU_ITEM_RENDER, MENU_ITEM_ABOUT }
    /\ LET done == DialogClosed([ui EXCEPT !.pendingMenuItem = -1], dialog)
       IN  /\ StepsLeft(done)
           /\ ui' = AfterZoom(done, shiftPressed)
    /\ mainPc' = "frame"
    /\ UNCHANGED shown
    /\ EngineKept

\* case 2: Load, confirmed and read
PassLoad(state, smooth, shiftPressed) ==
    /\ Due
    /\ PopupDue(ui) /\ ui.pendingMenuItem = 2
    /\ LET done == [LoadedView(DialogClosed([ui EXCEPT !.pendingMenuItem = -1], "ok"),
                               state)
                       EXCEPT !.smoothZoomMode = smooth]
       IN  /\ StepsLeft(done)
           /\ ui' = AfterZoom(done, shiftPressed)
           /\ colorMode' = state.colorMode
           /\ colorShift' = state.colorShift
           /\ maxIterations' = EffectiveMaxIter(done)
    /\ mainPc' = "frame"
    /\ UNCHANGED << shown, pc, result, width, height, hostVectors, deviceBuffers,
                    kernelArgs, callArgs, kernelRun, ucharConv, probe, device,
                    acquired, oob, lastFrame >>

\* case 3: Quit
PassQuit(shiftPressed) ==
    /\ Due
    /\ PopupDue(ui) /\ ui.pendingMenuItem = 3
    /\ LET done == [ui EXCEPT !.pendingMenuItem = -1, !.running = FALSE]
       IN  /\ StepsLeft(done)
           /\ ui' = AfterZoom(done, shiftPressed)
    /\ mainPc' = "frame"
    /\ UNCHANGED shown
    /\ EngineKept

\* case 4: Maximize/Minimize
PassMaximize(modeOk, displayMode, textureOk, shiftPressed) ==
    /\ Due
    /\ PopupDue(ui) /\ ui.pendingMenuItem = 4
    /\ UNCHANGED shown
    /\ IF ui.isMaximized /\ ~modeOk
       THEN LET done == [ui EXCEPT !.pendingMenuItem = -1]
            IN  /\ StepsLeft(done)
                /\ ui' = AfterZoom(done, shiftPressed)
                /\ mainPc' = "frame"
                /\ EngineKept
       ELSE LET w == IF ui.isMaximized THEN displayMode.w - margin ELSE WindowedWidth
                h == IF ui.isMaximized THEN displayMode.h - margin ELSE WindowedHeight
                done == [ui EXCEPT !.pendingMenuItem = -1,
                                   !.WINDOW_WIDTH = w, !.WINDOW_HEIGHT = h]
            IN  IF textureOk
                THEN /\ StepsLeft(done)
                     /\ ui' = AfterZoom(done, shiftPressed)
                     /\ Resized(w, h)
                     /\ mainPc' = "frame"
                     /\ UNCHANGED << pc, result, maxIterations, colorMode, colorShift,
                                     kernelArgs, callArgs, ucharConv, probe, device,
                                     acquired, oob >>
                ELSE /\ ui' = done
                     /\ Destroyed(result)
                     /\ mainPc' = "exit"
                     /\ UNCHANGED << ucharConv, probe, device, oob >>

\* time passes between two steps of the program
InputElapse(ms) ==
    /\ Due
    /\ ui' = Later(ui, ms)
    /\ UNCHANGED << mainPc, shown >>
    /\ EngineKept

\* SDL_WINDOWEVENT_FOCUS_LOST
FocusLost(u) ==
    [u EXCEPT !.fileMenuOpen = FALSE, !.viewMenuOpen = FALSE,
              !.renderMenuOpen = FALSE, !.helpMenuOpen = FALSE]

InputFocusLost ==
    /\ Due
    /\ ui' = FocusLost(ui)
    /\ UNCHANGED << mainPc, shown >>
    /\ EngineKept

\* ---------------------------------------------------------------------------
\* The menus.  The left button is pressed and released at once, so no button is
\* held when a pass comes to the continuous zoom; the window is at the scale of
\* the resolutions followed, and the menu bar is laid out in pixels of its own.
\* ---------------------------------------------------------------------------

\* the clicks of one run
MaxClicks == 4

\* the four titles of the menu bar, the items below them, and the picture
MenuPointers ==
    { << 150, 10 >>, << 200, 10 >>, << 270, 10 >>, << 330, 10 >>,
      << 150, 30 >>, << 150, 50 >>, << 150, 70 >>, << 150, 90 >>,
      << 250, 30 >>, << 330, 30 >>, << 600, 300 >> }

InitMenu ==
    /\ mainPc = "poll"
    /\ ui = [StartUi EXCEPT !.WINDOW_WIDTH = WindowedWidth,
                            !.WINDOW_HEIGHT = WindowedHeight]
    /\ shown = NoShown
    /\ EngineAtStart
    /\ probe = NoProbe

\* a click of the left button: SDL_MOUSEBUTTONDOWN, then SDL_MOUSEBUTTONUP
MenuClick(x, y) ==
    /\ Due
    /\ ui.events < MaxClicks
    /\ ui' = [Released(LeftButtonUp(LeftButtonDown(Pressed(ui, "left", x, y), x, y),
                                    x, y), "left", x, y)
                 EXCEPT !.events = @ + 1]
    /\ UNCHANGED << mainPc, shown >>
    /\ EngineKept

NextMenu ==
    \/ \E ms \in Lapses : InputElapse(ms)
    \/ \E p \in MenuPointers : MenuClick(p[1], p[2])
    \/ InputFocusLost
    \/ \E shiftPressed \in BOOLEAN : PassIdle(shiftPressed)
    \/ \E shiftPressed \in BOOLEAN : PassReset(shiftPressed)
    \/ \E dialog \in Dialogs, shiftPressed \in BOOLEAN : PassDialog(dialog, shiftPressed)
    \/ \E state \in FileStates, smooth \in BOOLEAN, shiftPressed \in BOOLEAN :
          PassLoad(state, smooth, shiftPressed)
    \/ \E shiftPressed \in BOOLEAN : PassQuit(shiftPressed)
    \/ \E modeOk \in BOOLEAN, displayMode \in DisplayModes, textureOk \in BOOLEAN,
          shiftPressed \in BOOLEAN :
          PassMaximize(modeOk, displayMode, textureOk, shiftPressed)
    \/ \E outcome \in {"ok"} \cup ComputeErrors : RenderFrame(outcome)
    \/ LeaveLoop

SpecMenu == InitMenu /\ [][NextMenu]_vars

OpenMenus(u) ==
    { m \in { "file", "view", "render", "help" } :
        \/ m = "file" /\ u.fileMenuOpen
        \/ m = "view" /\ u.viewMenuOpen
        \/ m = "render" /\ u.renderMenuOpen
        \/ m = "help" /\ u.helpMenuOpen }

\* C28: at most one of the four dropdown menus (File, View, Render, Help) is open
\* in any reachable state
C28_AtMostOneMenuOpen == Cardinality(OpenMenus(ui)) <= 1

\* C29: a menu item that has been selected is the pending action until the pass
\* that runs it once its popup delay has gone by; it is not dropped and not
\* replaced, also when another item is selected before the delay has elapsed
C29_PendingUntilRun ==
    [][ ui.pendingMenuItem # -1
        => \/ ui'.pendingMenuItem = ui.pendingMenuItem
           \/ PopupDue(ui) /\ ui'.pendingMenuItem = -1 ]_vars

\* ---------------------------------------------------------------------------
\* Smooth zoom: the buttons are held over the passes, in the 800 x 600 window
\* ---------------------------------------------------------------------------

\* a title of the menu bar and two points of the picture; no item of a menu is
\* clicked, so no menu action becomes pending
SmoothPointers == { << 150, 10 >>, << 420, 320 >>, << 300, 200 >> }

InitSmooth ==
    /\ mainPc = "poll"
    /\ ui = StartUi
    /\ shown = NoShown
    /\ EngineAtStart
    /\ probe = NoProbe

\* SDL_MOUSEBUTTONDOWN
SmoothPress(button, x, y) ==
    /\ Due
    /\ button \notin ui.buttons
    /\ ui' = IF button = "left"
             THEN LeftButtonDown(Pressed(ui, button, x, y), x, y)
             ELSE RightButtonDown(Pressed(ui, button, x, y), x, y)
    /\ UNCHANGED << mainPc, shown >>
    /\ EngineKept

\* SDL_MOUSEBUTTONUP: the release of the right button has no handler
SmoothRelease(button, x, y) ==
    /\ Due
    /\ button \in ui.buttons
    /\ ui' = IF button = "left"
             THEN LeftButtonUp(Released(ui, button, x, y), x, y)
             ELSE Released(ui, button, x, y)
    /\ UNCHANGED << mainPc, shown >>
    /\ EngineKept

\* SDL_MOUSEMOTION
SmoothMove(x, y) ==
    /\ Due
    /\ ui' = MouseMotion([ui EXCEPT !.mouseX = x, !.mouseY = y], x, y)
    /\ UNCHANGED << mainPc, shown >>
    /\ EngineKept

NextSmooth ==
    \/ \E ms \in Lapses : InputElapse(ms)
    \/ \E button \in { "left", "right" }, p \in SmoothPointers :
          SmoothPress(button, p[1], p[2])
    \/ \E button \in { "left", "right" }, p \in SmoothPointers :
          SmoothRelease(button, p[1], p[2])
    \/ \E p \in SmoothPointers : SmoothMove(p[1], p[2])
    \/ \E shiftPressed \in BOOLEAN : PassIdle(shiftPressed)
    \/ \E outcome \in {"ok"} \cup ComputeErrors : RenderFrame(outcome)

SpecSmooth == InitSmooth /\ [][NextSmooth]_vars

\* C30: in smooth-zoom mode the continuous-zoom block of a pass leaves center
\* and zoom as they are while a dropdown menu is open or the pointer is inside
\* the menu bar, whichever button is held
C30_NoZoomUnderMenu ==
    [][ ( /\ mainPc = "poll" /\ mainPc' = "frame"
          /\ ui.smoothZoomMode /\ ~PopupDue(ui)
          /\ MenuOpen(ui) \/ (ui.showMenu /\ ui.mouseY >= 0 /\ ui.mouseY < MENU_HEIGHT) )
        => ViewOf(ui') = ViewOf(ui) ]_vars

\* ---------------------------------------------------------------------------
\* Gestures: the selection rectangle of the left button and the pan of the
\* middle button, from the press to the release, in the 800 x 600 window
\* ---------------------------------------------------------------------------

\* the presses, releases and moves of one run
MaxGestureEvents == 5

\* two points of the picture and one of the menu bar
GesturePointers == { << 300, 200 >>, << 420, 320 >>, << 50, 10 >> }

\* SDL_MOUSEBUTTONDOWN of the middle button: the pan starts
MiddleButtonDown(u, x, y) ==
    IF /\ ~u.ignoreMouseActions /\ (~u.showMenu \/ y >= MENU_HEIGHT)
       /\ MenuActionPast(u) /\ DialogClosePast(u)
    THEN [u EXCEPT !.isDragging = TRUE, !.lastMouseX = x, !.lastMouseY = y]
    ELSE u

\* SDL_MOUSEBUTTONUP of the middle button: the pan stops
MiddleButtonUp(u, x, y) ==
    IF ~u.ignoreMouseActions /\ (~u.showMenu \/ y >= MENU_HEIGHT) /\ MenuActionPast(u)
    THEN [u EXCEPT !.isDragging = FALSE]
    ELSE u

InitGesture ==
    /\ mainPc = "poll"
    /\ ui = StartUi
    /\ shown = NoShown
    /\ EngineAtStart
    /\ probe = NoProbe

\* SDL_KEYDOWN of M: smooth zoom or rectangle selection
GestureMode ==
    /\ Due
    /\ ui.buttons = {}
    /\ ui' = KeyDown(ui, "m")
    /\ UNCHANGED << mainPc, shown >>
    /\ EngineKept

GesturePress(button, x, y) ==
    /\ Due
    /\ ui.events < MaxGestureEvents
    /\ button \notin ui.buttons
    /\ ui' = [(IF button = "left"
               THEN LeftButtonDown(Pressed(ui, button, x, y), x, y)
               ELSE MiddleButtonDown(Pressed(ui, button, x, y), x, y))
                 EXCEPT !.events = @ + 1]
    /\ UNCHANGED << mainPc, shown >>
    /\ EngineKept

GestureRelease(button, x, y) ==
    /\ Due
    /\ ui.events < MaxGestureEvents
    /\ button \in ui.buttons
    /\ ui' = [(IF button = "left"
               THEN LeftButtonUp(Released(ui, button, x, y), x, y)
               ELSE MiddleButtonUp(Released(ui, button, x, y), x, y))
                 EXCEPT !.events = @ + 1]
    /\ UNCHANGED << mainPc, shown >>
    /\ EngineKept

GestureMove(x, y) ==
    /\ Due
    /\ ui.events < MaxGestureEvents
    /\ ui' = [MouseMotion([ui EXCEPT !.mouseX = x, !.mouseY = y], x, y)
                 EXCEPT !.events = @ + 1]
    /\ UNCHANGED << mainPc, shown >>
    /\ EngineKept

NextGesture ==
    \/ \E ms \in Lapses : InputElapse(ms)
    \/ GestureMode
    \/ \E button \in { "left", "middle" }, p \in GesturePointers :
          GesturePress(button, p[1], p[2])
    \/ \E button \in { "left", "middle" }, p \in GesturePointers :
          GestureRelease(button, p[1], p[2])
    \/ \E p \in GesturePointers : GestureMove(p[1], p[2])

SpecGesture == InitGesture /\ [][NextGesture]_vars

\* C31: a gesture ends when its button is released: after the release of the
\* left button drawing is false, and after the release of the middle button
\* isDragging is false, wherever the pointer is and whatever ignoreMouseActions
\* and the menu timers are
C31_ReleaseEndsGesture ==
    [][ /\ ("left" \in ui.buttons /\ "left" \notin ui'.buttons) => ~ui'.drawing
        /\ ("middle" \in ui.buttons /\ "middle" \notin ui'.buttons) => ~ui'.isDragging
      ]_vars

\* ---------------------------------------------------------------------------
\* SDL_QUIT: in the loop of main and in the loops of the dialogs.  probe.received
\* holds the loops that have taken an SDL_QUIT event from the queue.
\* ---------------------------------------------------------------------------

\* the titles File and Help, and the items Save and About below them
QuitPointers == { << 150, 10 >>, << 150, 50 >>, << 330, 10 >>, << 330, 30 >> }

InitQuit ==
    /\ mainPc = "poll"
    /\ ui = [StartUi EXCEPT !.WINDOW_WIDTH = WindowedWidth,
                            !.WINDOW_HEIGHT = WindowedHeight]
    /\ shown = NoShown
    /\ EngineAtStart
    /\ probe = [kind |-> "quit", received |-> {}]

\* SDL_QUIT taken by the loop of main
QuitInLoop ==
    /\ Due
    /\ ui' = [ui EXCEPT !.running = FALSE]
    /\ probe' = [probe EXCEPT !.received = @ \cup {"loop"}]
    /\ UNCHANGED << mainPc, shown >>
    /\ UNCHANGED << pc, result, fields, hostVectors, deviceBuffers, kernelArgs, callArgs,
                    kernelRun, ucharConv, device, acquired, oob, lastFrame >>

\* a pass whose menu action shows a dialog, and SDL_QUIT taken by the loop of
\* the dialog: the dialog is left and the pass goes on
QuitInDialog(shiftPressed) ==
    /\ Due
    /\ PopupDue(ui) /\ ui.pendingMenuItem \in { 1, 2, MENU_ITEM_RENDER, MENU_ITEM_ABOUT }
    /\ LET done == DialogClosed([ui EXCEPT !.pendingMenuItem = -1], "quit")
       IN  /\ StepsLeft(done)
           /\ ui' = AfterZoom(done, shiftPressed)
    /\ probe' = [probe EXCEPT !.received = @ \cup {"dialog"}]
    /\ mainPc' = "frame"
    /\ UNCHANGED shown
    /\ UNCHANGED << pc, result, fields, hostVectors, deviceBuffers, kernelArgs, callArgs,
                    kernelRun, ucharConv, device, acquired, oob, lastFrame >>

\* the steps the program takes by itself: the rest of a pass, the frame, the
\* way out of the loop.  A dialog is closed by the user.
QuitProgress ==
    \/ \E shiftPressed \in BOOLEAN : PassIdle(shiftPressed)
    \/ \E dialog \in { "ok", "cancel" }, shiftPressed \in BOOLEAN :
          PassDialog(dialog, shiftPressed)
    \/ \E outcome \in {"ok"} \cup ComputeErrors : RenderFrame(outcome)
    \/ LeaveLoop

NextQuit ==
    \/ \E ms \in Lapses : InputElapse(ms)
    \/ \E p \in QuitPointers : MenuClick(p[1], p[2])
    \/ QuitInLoop
    \/ \E shiftPressed \in BOOLEAN : QuitInDialog(shiftPressed)
    \/ QuitProgress

SpecQuit == InitQuit /\ [][NextQuit]_vars /\ WF_vars(QuitProgress)

\* C32: an SDL_QUIT event received in any state, also while the file dialog or
\* the About dialog is open, is followed by the end of the main loop: main
\* leaves the loop and cleans up
C32_QuitTerminates == (probe.received # {}) ~> (mainPc = "exit")

\* ---------------------------------------------------------------------------
\* The zoom history: the views saved by the mouse wheel and by the rectangle
\* zoom, and the way back, when the history is short and when it is full
\* ---------------------------------------------------------------------------

\* the turns of the mouse wheel before the run that is followed
MaxWheelTurns == 50

\* the wheel turns, rectangle zooms and right clicks of the run
MaxHistoryEvents == 3

\* main's globals after n turns of the wheel at the middle of the window, up and
\* down in turn
RECURSIVE WheelTurns(_, _)
WheelTurns(u, n) ==
    IF n = 0 THEN u
             ELSE WheelZoom(WheelTurns(u, n - 1), n % 2 = 1,
                            u.WINDOW_WIDTH \div 2, u.WINDOW_HEIGHT \div 2)

\* rectangle selection (the M key), the delays gone by, the wheel turned
InitHistory ==
    /\ mainPc = "poll"
    /\ \E n \in 0..MaxWheelTurns :
          ui = WheelTurns(Later([StartUi EXCEPT !.smoothZoomMode = FALSE], PastDelay), n)
    /\ shown = NoShown
    /\ EngineAtStart
    /\ probe = [kind |-> "history", op |-> "none", len |-> 1]

\* what the handlers of this part leave alone in the engine
HistoryKept ==
    UNCHANGED << mainPc, shown, pc, result, width, height, colorMode, colorShift,
                 hostVectors, deviceBuffers, kernelArgs, callArgs, kernelRun, ucharConv,
                 device, acquired, oob, lastFrame >>

\* SDL_MOUSEWHEEL: the new view is saved
HistoryWheel(up, x, y) ==
    /\ Due
    /\ ui.events < MaxHistoryEvents
    /\ ui' = [WheelZoom(ui, up, x, y) EXCEPT !.events = @ + 1]
    /\ probe' = [probe EXCEPT !.op = "save", !.len = Len(ui.zoomHistory)]
    /\ UNCHANGED maxIterations
    /\ HistoryKept

\* the left button pressed at one point, moved to another and released there:
\* a rectangle of more than five pixels zooms, and the view left is saved
HistorySelect(x, y, toX, toY) ==
    /\ Due
    /\ ui.events < MaxHistoryEvents
    /\ LET moved == MouseMotion(LeftButtonDown(ui, x, y), toX, toY)
       IN  /\ ui' = [LeftButtonUp(moved, toX, toY) EXCEPT !.events = @ + 1]
           /\ probe' = [probe EXCEPT !.op = IF ReleaseZooms(moved, toY) THEN "save"
                                                                       ELSE "none",
                                     !.len = Len(ui.zoomHistory)]
    /\ UNCHANGED maxIterations
    /\ HistoryKept

\* the right button: zoomOut
HistoryZoomOut(x, y) ==
    /\ Due
    /\ ui.events < MaxHistoryEvents
    /\ ui' = [RightButtonDown(ui, x, y) EXCEPT !.events = @ + 1]
    /\ maxIterations' = IF RightClickZoomsOut(ui, y) /\ Len(ui.zoomHistory) > 1
                        THEN EffectiveMaxIter(ui')
                        ELSE maxIterations
    /\ probe' = [probe EXCEPT !.op = IF RightClickZoomsOut(ui, y) THEN "out" ELSE "none",
                              !.len = Len(ui.zoomHistory)]
    /\ HistoryKept

NextHistory ==
    \/ \E up \in BOOLEAN, p \in { << 400, 300 >>, << 420, 320 >> } :
          HistoryWheel(up, p[1], p[2])
    \/ \E p \in { << 300, 200 >> }, q \in { << 303, 203 >>, << 500, 400 >> } :
          HistorySelect(p[1], p[2], q[1], q[2])
    \/ \E p \in { << 420, 320 >>, << 50, 10 >> } : HistoryZoomOut(p[1], p[2])

SpecHistory == InitHistory /\ [][NextHistory]_vars

\* C33: once the initial view has been saved the zoom history holds between 1
\* and 50 entries: a save appends the view, and drops the oldest entry when
\* there were 50; zoomOut drops the last entry when there is more than one, and
\* otherwise leaves center, zoom, maxIterations and the history as they are
C33_HistoryBounded ==
    [][ LET h == ui.zoomHistory
            hNew == ui'.zoomHistory
        IN  /\ Len(h) \in 1..50 /\ Len(hNew) \in 1..50
            /\ probe'.op = "save"
                  => hNew = Append(IF Len(h) = 50 THEN Tail(h) ELSE h, hNew[Len(hNew)])
            /\ probe'.op = "out" /\ Len(h) > 1
                  => hNew = SubSeq(h, 1, Len(h) - 1)
            /\ probe'.op = "out" /\ Len(h) = 1
                  => /\ hNew = h
                     /\ ViewOf(ui') = ViewOf(ui)
                     /\ ui'.maxIterations = ui.maxIterations
                     /\ maxIterations' = maxIterations ]_vars

\* a view has been saved when the history held 50 entries, and it holds 50 still
C33_Witness ==
    /\ probe.kind = "history" /\ probe.op = "save" /\ probe.len = 50
    /\ Len(ui.zoomHistory) = 50

\* ---------------------------------------------------------------------------
\* The parameters of the engine and main's globals: the keys, the menu actions
\* and the loads of a run, and the frames computed in between
\* ---------------------------------------------------------------------------

\* the keys that change a parameter of the picture
ParamKeys == { "c", "z", "x", "q", "e", "r" }

\* the title File and its items Reset and Load
ParamPointers == { << 150, 10 >>, << 150, 30 >>, << 150, 70 >> }

\* a key is taken while fewer events than these have been counted
MaxKeys == 3

InitParams ==
    /\ mainPc = "poll"
    /\ ui = [StartUi EXCEPT !.WINDOW_WIDTH = WindowedWidth,
                            !.WINDOW_HEIGHT = WindowedHeight]
    /\ shown = NoShown
    /\ EngineAtStart
    /\ probe = NoProbe

ParamKey_NoSetColorMode(key) ==
    /\ Due
    /\ ui.events < MaxKeys
    /\ IF KeyReturns(ui, key)
       THEN /\ ui' = [KeyDown(ui, key) EXCEPT !.events = @ + 1]
            /\ UNCHANGED mainPc
       ELSE /\ mainPc' = "hung"
            /\ UNCHANGED ui
    /\ colorMode' = colorMode
    /\ colorShift' = IF ~MenuOpen(ui) /\ key \in { "z", "x" } /\ KeyReturns(ui, key)
                     THEN ui'.colorShift ELSE colorShift
    /\ maxIterations' = IF ~MenuOpen(ui) /\ key = "r"
                        THEN EffectiveMaxIter(ui') ELSE maxIterations
    /\ UNCHANGED << shown, probe, pc, result, width, height, hostVectors, deviceBuffers,
                    kernelArgs, callArgs, kernelRun, ucharConv, device, acquired, oob,
                    lastFrame >>

\* SDL_KEYDOWN: the key changes main's globals, and C, Z, X and R hand the new
\* value to the engine
ParamKey(key) ==
    /\ Due
    /\ ui.events < MaxKeys
    /\ IF KeyReturns(ui, key)
       THEN /\ ui' = [KeyDown(ui, key) EXCEPT !.events = @ + 1]
            /\ UNCHANGED mainPc
       ELSE /\ mainPc' = "hung"
            /\ UNCHANGED ui
    /\ colorMode' = IF ~MenuOpen(ui) /\ key = "c" THEN ui'.colorMode ELSE colorMode
    /\ colorShift' = IF ~MenuOpen(ui) /\ key \in { "z", "x" } /\ KeyReturns(ui, key)
                     THEN ui'.colorShift ELSE colorShift
    /\ maxIterations' = IF ~MenuOpen(ui) /\ key = "r"
                        THEN EffectiveMaxIter(ui') ELSE maxIterations
    /\ UNCHANGED << shown, probe, pc, result, width, height, hostVectors, deviceBuffers,
                    kernelArgs, callArgs, kernelRun, ucharConv, device, acquired, oob,
                    lastFrame >>

NextParams ==
    \/ \E ms \in Lapses : InputElapse(ms)
    \/ \E key \in ParamKeys : ParamKey(key)
    \/ \E p \in ParamPointers : MenuClick(p[1], p[2])
    \/ \E shiftPressed \in BOOLEAN : PassIdle(shiftPressed)
    \/ \E shiftPressed \in BOOLEAN : PassReset(shiftPressed)
    \/ \E dialog \in Dialogs, shiftPressed \in BOOLEAN : PassDialog(dialog, shiftPressed)
    \/ \E state \in FileStates, smooth \in BOOLEAN, shiftPressed \in BOOLEAN :
          PassLoad(state, smooth, shiftPressed)
    \/ \E outcome \in {"ok"} \cup ComputeErrors : RenderFrame(outcome)

SpecParams == InitParams /\ [][NextParams]_vars

\* C34: at every computeFrame call of the main loop, whatever keys, menu actions
\* and loads came before, the engine's palette is colorMode, its colour shift
\* is colorShift, and its maxIterations is maxIterations * highQualityMultiplier
\* in high quality mode and maxIterations otherwise
C34_EngineFollowsUi ==
    [][ /\ mainPc = "frame" => (colorMode = ui.colorMode /\ colorShift = ui.colorShift)
        /\ (mainPc = "frame" /\ mainPc' \in { "poll", "done" })
              => /\ maxIterations' = EffectiveMaxIter(ui)
                 /\ kernelArgs'.max_iter = EffectiveMaxIter(ui)
                 /\ kernelArgs'.color_mode = ui.colorMode
                 /\ kernelArgs'.color_shift = ui.colorShift ]_vars

\* a frame has been computed after a view state was loaded and the C key
\* pressed: the palette loaded was 4, and it is 5 in main and in the kernel
C34_Witness ==
    /\ mainPc = "poll" /\ lastFrame.valid
    /\ ui.zoom = 2 * ONE /\ ui.maxIterations = 100
    /\ ui.colorMode = 5 /\ kernelArgs.color_mode = 5

\* C35: colorMode is one of the six palette indices 0..5 in every state, also
\* after a view-state file has been loaded, so that it is an index of
\* colorNames; and the C key goes from each palette to the next one, from the
\* last to the first, which brings back the starting palette after six presses
C35_SixPalettes ==
    [][ /\ ui.colorMode \in 0..5
        /\ ui'.colorMode \in 0..5
        /\ (ParamKey("c") /\ ~MenuOpen(ui)) => ui'.colorMode = (ui.colorMode + 1) % 6
      ]_vars

\* ---------------------------------------------------------------------------
\* File > Load: the dialog, loadViewState, and what main does with its result.
\* probe holds how the last load went.
\* ---------------------------------------------------------------------------

\* the fields of a ViewState that main's globals followed here take, in the
\* order of the record
ViewStateFields ==
    << "centerX", "centerY", "zoom", "maxIterations", "colorMode", "colorShift",
       "highQualityMode", "highQualityMultiplier" >>

\* the files given to loadViewState: one that cannot be opened, and files that
\* hold the first len fields of a record: none, five, all but one, all
ViewFiles ==
    { [opens |-> o, len |-> n, state |-> s] :
        o \in BOOLEAN,
        n \in { 0, 5, Len(ViewStateFields) - 1, Len(ViewStateFields) },
        s \in FileStates }

\* file.read fills the record as far as the file goes
ReadFields(file, state) ==
    [f \in DOMAIN state |->
        IF \E i \in 1..file.len : ViewStateFields[i] = f THEN file.state[f]
                                                        ELSE state[f]]

loadViewState_Opened(file, state) ==
    IF ~file.opens
    THEN [good |-> FALSE, state |-> state]
    ELSE [good |-> TRUE, state |-> ReadFields(file, state)]

\* loadViewState: false when the file cannot be opened, and file.good() after
\* the read otherwise, which is false when the file ended before the record
loadViewState(file, state) ==
    IF ~file.opens
    THEN [good |-> FALSE, state |-> state]
    ELSE [good |-> file.len >= Len(ViewStateFields), state |-> ReadFields(file, state)]

InitLoad ==
    /\ mainPc = "poll"
    /\ ui = [StartUi EXCEPT !.WINDOW_WIDTH = WindowedWidth,
                            !.WINDOW_HEIGHT = WindowedHeight]
    /\ shown = NoShown
    /\ EngineAtStart
    /\ probe = [kind |-> "load", loads |-> 0, confirmed |-> FALSE, opens |-> FALSE,
                len |-> 0, good |-> FALSE]

\* case 2: the dialog is confirmed or not; if it is, the file is read into the
\* local record, whose fields hold anything before; if loadViewState returns
\* true the record is copied to main's globals and to the engine
LoadFile(confirmed, file, local, smooth, shiftPressed) ==
    /\ Due
    /\ PopupDue(ui) /\ ui.pendingMenuItem = 2
    /\ LET closed == DialogClosed([ui EXCEPT !.pendingMenuItem = -1],
                                  IF confirmed THEN "ok" ELSE "cancel")
           read == loadViewState(file, local)
           loaded == confirmed /\ read.good
           done == IF loaded
                   THEN [LoadedView(closed, read.state) EXCEPT !.smoothZoomMode = smooth]
                   ELSE closed
       IN  /\ StepsLeft(done)
           /\ ui' = AfterZoom(done, shiftPressed)
           /\ colorMode' = IF loaded THEN read.state.colorMode ELSE colorMode
           /\ colorShift' = IF loaded THEN read.state.colorShift ELSE colorShift
           /\ maxIterations' = IF loaded THEN EffectiveMaxIter(done) ELSE maxIterations
           /\ probe' = [kind |-> "load", loads |-> 1 - probe.loads,
                        confirmed |-> confirmed, opens |-> file.opens,
                        len |-> file.len, good |-> read.good]
    /\ mainPc' = "frame"
    /\ UNCHANGED << shown, pc, result, width, height, hostVectors, deviceBuffers,
                    kernelArgs, callArgs, kernelRun, ucharConv, device, acquired, oob,
                    lastFrame >>

NextLoad ==
    \/ \E ms \in Lapses : InputElapse(ms)
    \/ \E key \in { "c", "e" } : ParamKey(key)
    \/ \E p \in { << 150, 10 >>, << 150, 70 >> } : MenuClick(p[1], p[2])
    \/ \E shiftPressed \in BOOLEAN : PassIdle(shiftPressed)
    \/ \E confirmed \in BOOLEAN, file \in ViewFiles, local \in FileStates,
          smooth \in BOOLEAN, shiftPressed \in BOOLEAN :
          LoadFile(confirmed, file, local, smooth, shiftPressed)
    \/ \E outcome \in {"ok"} \cup ComputeErrors : RenderFrame(outcome)

SpecLoad == InitLoad /\ [][NextLoad]_vars

\* C36: when the load of a view state fails, because the file cannot be opened
\* or is shorter than one record, loadViewState returns false and center, zoom,
\* maxIterations, colorMode, colorShift, the quality settings and the engine's
\* parameters are as they were
C36_FailedLoadKeepsState ==
    [][ probe'.loads # probe.loads
        => /\ (~probe'.opens \/ probe'.len < Len(ViewStateFields)) => ~probe'.good
           /\ (probe'.confirmed /\ ~probe'.good)
                 => /\ ViewOf(ui') = ViewOf(ui)
                    /\ ui'.maxIterations = ui.maxIterations
                    /\ ui'.colorMode = ui.colorMode
                    /\ ui'.colorShift = ui.colorShift
                    /\ ui'.highQualityMode = ui.highQualityMode
                    /\ ui'.highQualityMultiplier = ui.highQualityMultiplier
                    /\ ui'.smoothZoomMode = ui.smoothZoomMode
                    /\ colorMode' = colorMode /\ colorShift' = colorShift
                    /\ maxIterations' = maxIterations ]_vars

\* the load of a file that holds the first five fields of a record has failed,
\* after the C and E keys: main has the palette and the multiplier of the keys
C36_Witness ==
    /\ probe.kind = "load" /\ probe.confirmed /\ probe.opens /\ probe.len = 5
    /\ ~probe.good
    /\ mainPc = "frame"
    /\ ui.colorMode = 2 /\ ui.highQualityMultiplier = 8 /\ ui.zoom = Fx(3, 2)

\* ---------------------------------------------------------------------------
\* The quality multiplier: the Q and E keys, as often as they are pressed, and
\* the frames computed with the iteration count they give
\* ---------------------------------------------------------------------------

InitQuality ==
    /\ mainPc = "poll"
    /\ ui = [StartUi EXCEPT !.WINDOW_WIDTH = WindowedWidth,
                            !.WINDOW_HEIGHT = WindowedHeight]
    /\ shown = NoShown
    /\ EngineAtStart
    /\ probe = NoProbe

\* SDL_KEYDOWN of E (increase) and of Q (decrease)
QualityKey(increase) ==
    /\ Due
    /\ ui' = KeyDown(ui, IF increase THEN "e" ELSE "q")
    /\ UNCHANGED << mainPc, shown >>
    /\ EngineKept

NextQuality ==
    \/ \E increase \in BOOLEAN : QualityKey(increase)
    \/ \E shiftPressed \in BOOLEAN : PassIdle(shiftPressed)
    \/ \E outcome \in {"ok"} \cup ComputeErrors : RenderFrame(outcome)

SpecQuality == InitQuality /\ [][NextQuality]_vars

\* C37: whatever increases and decreases of adjustQualityMultiplier follow the
\* start, highQualityMultiplier stays within [minQualityMultiplier, 320], and
\* the effective iteration count maxIterations * highQualityMultiplier is
\* positive and an int of 32 bits, at most 2^31 - 1 = 2147483647, as is the
\* count a frame has been given
C37_MultiplierInRange ==
    /\ ui.highQualityMultiplier >= ui.minQualityMultiplier
    /\ ui.highQualityMultiplier <= 320
    /\ ui.maxIterations * ui.highQualityMultiplier > 0
    /\ ui.maxIterations * ui.highQualityMultiplier <= 2147483647
    /\ ui.highQualityMultiplier * 2 <= 2147483647
    /\ lastFrame.valid => (kernelArgs.max_iter > 0 /\ kernelArgs.max_iter <= 2147483647)

\* a frame has been computed with the largest multiplier, 320, and the Q key
\* has then brought the multiplier down to 5, a value on the way down only
C37_Witness ==
    /\ lastFrame.valid /\ kernelArgs.max_iter = 320 * DEFAULT_MAX_ITERATIONS
    /\ ui.highQualityMultiplier = 5

\* ---------------------------------------------------------------------------
\* The zoom toward the cursor: one step of smoothZoomToCursor or of the mouse
\* wheel, and the point computeFrame shows at the pixel of the cursor.  The
\* engine has the size of the window.  probe holds the step taken.
\* ---------------------------------------------------------------------------

\* the windows: the windowed one, and the maximized ones of a 1024 x 768 and
\* of a 700 x 700 display
CursorWindows == { << 800, 600 >>, << 924, 668 >>, << 600, 600 >> }

\* the cursor, in pixels from the middle of the window
CursorOffsets == { -200, -7, 0, 120, 200 }

\* the zooms before the step
CursorZooms == { ONE, Fx(3, 2) }

\* the steps of one run
MaxCursorSteps == 1

InitCursor ==
    /\ mainPc = "poll"
    /\ \E win \in CursorWindows, dx \in CursorOffsets, dy \in CursorOffsets,
          zm \in CursorZooms :
          ui = [Later(StartUi, PastDelay)
                   EXCEPT !.WINDOW_WIDTH = win[1], !.WINDOW_HEIGHT = win[2],
                          !.zoom = zm,
                          !.mouseX = win[1] \div 2 + dx, !.mouseY = win[2] \div 2 + dy]
    /\ shown = NoShown
    /\ EngineAtStart
    /\ probe = [kind |-> "cursor", op |-> "none"]

\* the point computeFrame shows at a pixel of the window
ShownAt(u, x, y) ==
    << CoordX(x, u.WINDOW_WIDTH, u.WINDOW_HEIGHT, u.centerX, u.zoom),
       CoordY(y, u.WINDOW_HEIGHT, u.centerY, u.zoom) >>

\* a step of the continuous zoom with a button held at the cursor
CursorSmooth(out, shiftPressed) ==
    /\ Due
    /\ ui.events < MaxCursorSteps
    /\ ui' = [Later(smoothZoomToCursor(ui, out, ui.mouseX, ui.mouseY, shiftPressed),
                    PastDelay)
                 EXCEPT !.events = @ + 1]
    /\ probe' = [kind |-> "cursor", op |-> "smooth"]
    /\ UNCHANGED << mainPc, shown, pc, result, fields, hostVectors, deviceBuffers,
                    kernelArgs, callArgs, kernelRun, ucharConv, device, acquired, oob,
                    lastFrame >>

\* a turn of the mouse wheel at the cursor
CursorWheel(up) ==
    /\ Due
    /\ ui.events < MaxCursorSteps
    /\ ui' = [WheelZoom(ui, up, ui.mouseX, ui.mouseY) EXCEPT !.events = @ + 1]
    /\ probe' = [kind |-> "cursor", op |-> "wheel"]
    /\ UNCHANGED << mainPc, shown, pc, result, fields, hostVectors, deviceBuffers,
                    kernelArgs, callArgs, kernelRun, ucharConv, device, acquired, oob,
                    lastFrame >>

NextCursor ==
    \/ \E out \in BOOLEAN, shiftPressed \in BOOLEAN : CursorSmooth(out, shiftPressed)
    \/ \E up \in BOOLEAN : CursorWheel(up)

SpecCursor == InitCursor /\ [][NextCursor]_vars

\* the width and the height of a pixel in the plane, in the coarser of two views
PixelSize(u, v) ==
    LET a == ShownAt(u, u.mouseX + 1, u.mouseY + 1)
        b == ShownAt(u, u.mouseX, u.mouseY)
        c == ShownAt(v, v.mouseX + 1, v.mouseY + 1)
        d == ShownAt(v, v.mouseX, v.mouseY)
    IN  << max(a[1] - b[1], c[1] - d[1]), max(a[2] - b[2], c[2] - d[2]) >>

\* C38: a zoom step toward the cursor, of smoothZoomToCursor and of the mouse
\* wheel, keeps the point of the plane shown under the cursor pixel where it
\* is: the point computeFrame's mapping gives the cursor pixel after the step
\* is the one it gave before, to less than the size of a pixel, for the widths
\* and heights of the window, the cursors and the zooms followed
C38_CursorPointFixed ==
    [][ ui'.events # ui.events
        => LET before == ShownAt(ui, ui.mouseX, ui.mouseY)
               after == ShownAt(ui', ui.mouseX, ui.mouseY)
               pixel == PixelSize(ui, ui')
           IN  /\ Abs(after[1] - before[1]) < pixel[1]
               /\ Abs(after[2] - before[2]) < pixel[2] ]_vars

=========================================================================
